---- MODULE Spec2Model ----
(***************************************************************************)
(* Booking and finance-intake handlers of prodej-maklerka                  *)
(* (netlify/functions/bookSlot.ts, netlify/functions/captureSalesFinance.ts)*)
(* over the tables they read and write.  Every storage call of a handler   *)
(* is a suspension point, so every call that touches mutable rows is one   *)
(* step of the invocation; several invocations run interleaved.            *)
(***************************************************************************)
EXTENDS Integers, Sequences, FiniteSets, TLC

\* ------------------------------------------------------------------ bounds

\* Requests (handler invocations) started in one behaviour.
MaxReq == 2

\* Milliseconds the limiter's clock advances in one behaviour.
MaxClock == 6

\* Concurrent handler invocations.
Procs == {"p1", "p2"}

\* ------------------------------------------------------------- fixed data

NULL == "null"

Applicants == {"A1", "A2"}
Properties == {"P1", "P2", "P3"}
Slots == {"S1", "S2", "S3", "S4"}

\* properties.property_code and properties.business_type never change here.
\* P1 and P2 are sales listings, P3 is a rental.
property_code ==
  [pr \in Properties |-> IF pr = "P1" THEN "077-NP1" ELSE IF pr = "P2" THEN "077-NP2" ELSE "077-NP3"]
business_type ==
  [pr \in Properties |-> IF pr = "P1" THEN "Prodej" ELSE IF pr = "P2" THEN "sale" ELSE "pronajem"]

\* viewings.property_id and viewings.slot_start of the pre-created slots.
slot_property == [s \in Slots |-> IF s = "S3" THEN "P2" ELSE "P1"]
slot_start ==
  [s \in Slots |-> IF s \in {"S2", "S4"} THEN "2026-01-02T11:00" ELSE "2026-01-02T10:00"]

\* viewing_tokens: token -> (applicant_id, property_id); rows are never written.
viewing_tokens ==
  [t \in {"T1", "T2", "T3", "T4"} |->
     IF t = "T1" THEN [applicant_id |-> "A1", property_id |-> "P1", used |-> FALSE]
     ELSE IF t = "T2" THEN [applicant_id |-> "A2", property_id |-> "P1", used |-> TRUE]
     ELSE IF t = "T3" THEN [applicant_id |-> "A1", property_id |-> "P2", used |-> FALSE]
     ELSE [applicant_id |-> "A2", property_id |-> "P3", used |-> FALSE]]

\* String.prototype.trim on the strings the model uses.
Trim(s) ==
  CASE s = " 077-NP1 " -> "077-NP1"
    [] s = " Jana Nova " -> "Jana Nova"
    [] s = "   " -> ""
    [] OTHER -> s

\* String.prototype.toLowerCase on the business types the model uses.
ToLowerCase(s) ==
  CASE s = "Prodej" -> "prodej"
    [] s = "SELL" -> "sell"
    [] OTHER -> s

\* String length of the over-long inputs; every other string is short.
LongToken == "token-of-257-chars"
LongSlotId == "slot-id-of-65-chars"
LongJwt == "Jlong"
LongCode == "code-of-65-chars"
LongName == "name-of-201-chars"
LongEmail == "email-of-255-chars"
LongPhone == "phone-of-41-chars"
StrLen(s) ==
  CASE s = LongToken -> 257
    [] s = LongJwt -> 300
    [] s = LongSlotId -> 65
    [] s = LongCode -> 65
    [] s = LongName -> 201
    [] s = LongEmail -> 255
    [] s = LongPhone -> 41
    [] OTHER -> 10

\* JSON numbers of the body: null, a number, or a string.
JNull == [t |-> "null", n |-> 0, s |-> ""]
JNum(n) == [t |-> "num", n |-> n, s |-> ""]
JStr(s) == [t |-> "str", n |-> 0, s |-> s]

VARIABLES
  properties,       \* properties.status by property id
  viewings,         \* viewings: slot id -> [status, applicant_id]
  sales_inquiries,  \* sales_inquiries rows in insertion order; a row's id is its index
  applicants,       \* applicants: id -> [full_name, email, phone, agreed_to_gdpr]
  applicant_identity_changes, \* rows in insertion order
  audit_events,     \* audit_events rows in insertion order
  inv,              \* the handler invocation each process runs, with its locals
  nreq,             \* requests started so far
  touches,          \* per slot: update statements that addressed the row so far
  overlapped,       \* (applicant, property) pairs two booking requests of which overlapped
  overlappedAny,    \* pairs two requests (booking or finance) of which overlapped
  store,            \* rateLimit.ts store of one warm instance: key -> timestamps
  now,              \* Date.now() of that instance
  last,             \* the last rateLimit call: its key and its result
  allowedAt,        \* per key, the timestamps of all calls allowed so far
  rejectedAt        \* per key, the rejections [t, resetMs] whose reset time no call has reached

tables == <<properties, viewings, sales_inquiries, applicants, applicant_identity_changes>>

vars == <<properties, viewings, sales_inquiries, applicants,
          applicant_identity_changes, audit_events, inv, nreq, touches, overlapped, overlappedAny,
          store, now, last, allowedAt, rejectedAt>>

\* The limiter of one warm instance.  The handlers below take the verdicts of
\* their keys as given and leave this instance's store alone.
limiter == <<store, now, last, allowedAt, rejectedAt>>

\* The bookkeeping no handler reads.
pairs == <<overlapped, overlappedAny>>

\* ------------------------------------------------------------ invocations

\* A process's invocation: the request (slotId, property_code, body), the handler's
\* locals, the response (statusCode, error), and bookkeeping about the run:
\*   solo       nothing else (no other invocation's step, no external change) has
\*              happened since this request began, and none was in flight then
\*   t0status   the target slot's status when the request began
\*   touches0   touches[slotId] when the request began
\*   held0      the slots the applicant held booked for the property at that time
\*   readStatus the listing status the request read
\*   wrote      the request has written to a table
\*   logged     the request has written an applicant_identity_changes row
\*   seq        of a finance submission, its place among the requests started
\*   log        the calls the handler has made so far, in order: rateLimit keys,
\*              jwt.verify, the payload checks, the tables read or written,
\*              writeAuditEvent, the finance-link fetch and sendMail
\*   envelope   the shape of the response body: "json" for json(status, {..}),
\*              "text" for a plain string
\*   link, mail what became of bookSlot's finance-link request and of its mail
\*   audit      what became of the request's audit write
\*   emitted    what the request called writeAuditEvent with
\*   nowMs      the clock reading getBookingPageData filters the slots by
\* and of the read endpoints the query and the response's payload: applicant (the
\* identity returned, as a set of at most one row), existingViewingTime, slots.
Idle ==
  [kind |-> "none", pc |-> "idle",
   slotId |-> NULL, property_code |-> NULL, body |-> NULL,
   applicantId |-> NULL, propertyId |-> NULL,
   existing |-> NULL, existingInquiry |-> 0,
   existingApplicant |-> NULL, identityChanged |-> FALSE, salesInquiryId |-> 0,
   statusCode |-> 0, error |-> NULL,
   solo |-> FALSE, t0status |-> NULL, touches0 |-> 0, held0 |-> {},
   readStatus |-> NULL, wrote |-> FALSE, logged |-> FALSE, seq |-> 0,
   log |-> <<>>, envelope |-> NULL, link |-> NULL, mail |-> NULL, audit |-> NULL,
   emitted |-> {}, nowMs |-> 0,
   query |-> NULL, applicant |-> {}, existingViewingTime |-> NULL, slots |-> {}]

\* json(status, {ok, error}): the handler returns; its locals are gone.
json(r, status, error) ==
  [r EXCEPT !.pc = "done", !.statusCode = status, !.error = error, !.envelope = "json",
            !.existing = NULL, !.existingInquiry = 0, !.existingApplicant = NULL]

\* return { statusCode, body: "<text>" }: a response whose body is a plain string.
text(r, status, body) ==
  [r EXCEPT !.pc = "done", !.statusCode = status, !.error = body, !.envelope = "text"]

\* The handler makes the call named by tag.
Did(r, tag) == [r EXCEPT !.log = Append(@, tag)]

\* Something else acted while r was live.
Disturb(r) == [r EXCEPT !.solo = FALSE]

\* Process p moves to r; every other invocation is no longer alone.
Step(p, r) ==
  /\ inv' = [q \in Procs |-> IF q = p THEN r ELSE Disturb(inv[q])]
  /\ UNCHANGED limiter

InFlight(r) == r.pc \notin {"idle", "done"}

\* The invocations in flight, other than p's, for the pair of r.
Rivals(p, r, kinds) ==
  {q \in Procs \ {p} : /\ inv[q].kind \in kinds /\ InFlight(inv[q])
                        /\ inv[q].applicantId = r.applicantId
                        /\ inv[q].propertyId = r.propertyId}

\* Bookkeeping when p's request r passes its checks: it overlaps the requests in
\* flight for the same (applicant, property).
NoteOverlap(p, r) ==
  LET pair == <<r.applicantId, r.propertyId>>
  IN /\ overlapped' = IF InFlight(r) /\ r.kind = "book" /\ Rivals(p, r, {"book"}) # {}
                      THEN overlapped \cup {pair} ELSE overlapped
     /\ overlappedAny' = IF InFlight(r) /\ Rivals(p, r, {"book", "finance"}) # {}
                         THEN overlappedAny \cup {pair} ELSE overlappedAny

\* PostgREST maybeSingle(): the row when exactly one matches, else data = null
\* (no row, or an error for several rows, which the callers do not look at).
MaybeSingle(rows, none) == IF Cardinality(rows) = 1 THEN CHOOSE x \in rows : TRUE ELSE none

\* ------------------------------------------------------------ utils/audit

\* crypto.createHash("sha256").update(token).digest("hex") of the tokens the
\* model uses.
Sha256Hex(t) ==
    CASE t = "T1" -> "1f93603db53bfad5c92390f735d0cbb8617b4ab8214ae91c5664a3d1e9b009c8"
      [] t = "T2" -> "0f617ba98e6a0f426517e51aff86858da592399abcde80b1b5995a6d0b71a055"
      [] t = "T3" -> "5dd67f7fb9c529cb28245800137482c9c2fdff9b7d22f54cd3bfa90c59b78481"
      [] t = "T4" -> "11ee5e9af3eec0dc5afa6d11db4f11e5a7a9ec95a8668da51b20155729a32bbe"
      [] t = "bogus" -> "f3c16f525a1b7c204fc953d6d7db7168d84ebf4902f83c3a37d113b18c28981f"
      [] t = "J1" -> "493d650d8d15e01b0a2588bb54c2f91f0235ca830d99247e4d8d8e13f4afe50a"
      [] t = "Jlong" -> "e67f767a0e016f1da8615af6745036511ec076d2d4a70de570102fdcaa0adf22"
      [] t = "Jexpired" -> "1a0d153cc733bc191b32e88b8194ac0208e81837708d189f98e412ffb8e0f243"
      [] t = "Jpurpose" -> "785076997f664c755179c4b8cb9849a6479b1dc5556e8ffbb7e453bf9b88ab39"
      [] t = "Jincomplete" -> "74d5544fd4c55777cee717e33d74b975846bbb6ff075e61b2bfd03c403f6f612"
      [] t = "Jmissing" -> "4920b30c29d6ea7cd13ee4c4c7086c5852645dbeb0447fb404aeb9f767af5394"
      [] OTHER -> "e3b0c44298fc1c149afbf4c8996fb92427ae41e4649b934ca495991b7852b855"

HashBytes == 10

\* A bug: the token itself in place of its hash.
tokenHashPrefixRaw(token, bytes) == token

\* tokenHashPrefix: the first bytes * 2 hex characters of the token's digest.
tokenHashPrefix(token, bytes) == SubSeq(Sha256Hex(token), 1, bytes * 2)

\* What writeAuditEvent is called with: the event type, the ids, the token to
\* hash and the meta object {ok, reason, property_code, sales_inquiry_id}, with
\* null for a reason and 0 for an id that the object does not have.
AuditWrite(eventType, applicantId, propertyId, tokenToHash, ok, reason, code, inquiryId) ==
  [event_type |-> eventType, applicant_id |-> applicantId, property_id |-> propertyId,
   token_to_hash |-> tokenToHash,
   meta |-> [ok |-> ok, reason |-> reason, property_code |-> code,
             sales_inquiry_id |-> inquiryId]]

\* The row writeAuditEvent inserts.  client_ip and user_agent come from the
\* request's headers, which the model leaves out.
AuditPayload(data) ==
  [event_type |-> data.event_type,
   applicant_id |-> data.applicant_id,
   property_id |-> data.property_id,
   viewing_token_id |-> NULL,
   token_hash_prefix |->
     IF data.token_to_hash # NULL /\ Trim(data.token_to_hash) # ""
     THEN tokenHashPrefix(Trim(data.token_to_hash), HashBytes) ELSE NULL,
   meta |-> data.meta]

\* What may become of the insert: the row is stored, the insert returns an
\* error, or the call throws.
AuditOutcomes == {"stored", "error", "throws"}

\* writeAuditEvent: one insert; an error is warned about, a throw is caught.
\* The table after the call, the inserts attempted, and whether the call raised.
writeAuditEvent(rows, data, outcome) ==
  [rows |-> IF outcome = "stored" THEN Append(rows, AuditPayload(data)) ELSE rows,
   attempts |-> 1,
   raised |-> FALSE]

\* A bug: the handler awaits the audit write and lets its failure through.
VoidAuditAwaited(r, w, outcome) ==
  IF w.raised \/ outcome # "stored"
  THEN json([r EXCEPT !.audit = outcome], 500, "Internal server error")
  ELSE [r EXCEPT !.audit = outcome]

\* void writeAuditEvent(..): the handler goes on without the call's result.
VoidAudit(r, w, outcome) == [r EXCEPT !.audit = outcome]

\* The invocation after `void writeAuditEvent(event, data)`.
Audited(r, data, outcome) ==
  VoidAudit([Did(r, "writeAuditEvent") EXCEPT !.emitted = @ \cup {data}],
            writeAuditEvent(audit_events, data, outcome), outcome)

\* The audit_events table after the calls r made in this step.  No path of a
\* handler makes more than one.
AuditedRows(r, outcome) ==
  IF r.emitted = {} THEN audit_events
  ELSE writeAuditEvent(audit_events, CHOOSE d \in r.emitted : TRUE, outcome).rows

\* --------------------------------------------------------------- bookSlot

MaxBodyBook == 10000
MaxSlotIdLen == 64
MaxTokenLen == 256

\* POST bodies {slotId, token} of well-formed requests (a property_code in the
\* body is not read): each applicant's token with each slot of its property, and
\* a token of P1 with the slot of P2.
CoreBookInputs ==
  {[method |-> "POST", bodyLen |-> 60, slotId |-> s, token |-> t,
    property_code |-> "077-NP1"] : s \in {"S1", "S2"}, t \in {"T1", "T2"}}
  \cup {[method |-> "POST", bodyLen |-> 60, slotId |-> "S3", token |-> "T1", property_code |-> "077-NP1"]}

\* Also the tokens of P2 and of the rental, a property_code other than the token's, an unknown slot,
\* an unknown token, and one request each that fails a check on the request's shape.
BookInputs ==
  CoreBookInputs
  \cup {[method |-> "POST", bodyLen |-> 60, slotId |-> "S3", token |-> "T3", property_code |-> "077-NP2"],
        [method |-> "POST", bodyLen |-> 60, slotId |-> "S9", token |-> "T1", property_code |-> "077-NP1"],
        [method |-> "POST", bodyLen |-> 60, slotId |-> "S1", token |-> "T4", property_code |-> "077-NP3"],
        [method |-> "POST", bodyLen |-> 60, slotId |-> "S1", token |-> "bogus", property_code |-> "077-NP1"],
        [method |-> "POST", bodyLen |-> 60, slotId |-> "S1", token |-> "T1", property_code |-> "077-NP2"],
        [method |-> "POST", bodyLen |-> 60, slotId |-> "S9", token |-> "T1", property_code |-> "077-NP2"],
        [method |-> "GET", bodyLen |-> 60, slotId |-> "S1", token |-> "T1", property_code |-> "077-NP1"],
        [method |-> "POST", bodyLen |-> 10001, slotId |-> "S1", token |-> "T1", property_code |-> "077-NP1"],
        [method |-> "POST", bodyLen |-> 60, slotId |-> "", token |-> "T1", property_code |-> "077-NP1"],
        [method |-> "POST", bodyLen |-> 60, slotId |-> "S1", token |-> LongToken, property_code |-> "077-NP1"]}

\* request.ts bodyTooLarge
bodyTooLarge(len, maxBytes) == len > maxBytes

\* viewing_tokens lookup by exact (trimmed) token
LookupToken(t) ==
  IF t \in DOMAIN viewing_tokens THEN viewing_tokens[t]
  ELSE [applicant_id |-> NULL, property_id |-> NULL, used |-> FALSE]

\* A bug: a token whose used flag is set is refused.
TokenRowResolvesUnused(vt) == vt.applicant_id # NULL /\ vt.property_id # NULL /\ ~vt.used

\* bookSlot's test of the token row: vt?.applicant_id and vt?.property_id; the
\* used flag is selected and not looked at.
TokenRowResolves(vt) == vt.applicant_id # NULL /\ vt.property_id # NULL

\* The business-type test of bookSlot.
IsSalesBook(bt) == ToLowerCase(bt) \in {"sell", "prodej", "sale"}

\* A bug: no listing-status test.
IsAvailableAlways(st) == TRUE

\* The listing-status test.
IsAvailable(st) == st = "available"

\* A bug: no comparison of the slot's property with the token's.
SlotMatchesTokenAlways(s, pid) == TRUE

\* The slot/property test: the slot belongs to the token's property.
SlotMatchesToken(s, pid) == slot_property[s] = pid

\* The slots an applicant holds booked for a property.
HeldSlots(a, pid) ==
  {s \in Slots : viewings[s] = [status |-> "booked", applicant_id |-> a] /\ slot_property[s] = pid}

\* A bug: the lookup filtering on the wrong status.
BookedByAvailable(a, pid) ==
  {s \in Slots : /\ viewings[s].applicant_id = a
                 /\ slot_property[s] = pid
                 /\ viewings[s].status = "available"}

\* The applicant's booked slots of the property, as the lookup's filters select them.
BookedBy(a, pid) ==
  {s \in Slots : /\ viewings[s].applicant_id = a
                 /\ slot_property[s] = pid
                 /\ viewings[s].status = "booked"}

\* The response of the checks that precede step 2, or pc = "existing" when all pass.
\* rlIp and rlTok are the verdicts of the two limiter keys; the limiter's store is
\* the memory of whichever warm instance serves the request.
BookGuards(r0, in, rlIp, rlTok) ==
  LET vt == LookupToken(Trim(in.token))
      pid == vt.property_id
      ra == Did(r0, "rateLimit:ip")
      rb == Did(ra, "rateLimit:tok")
      rc == Did(rb, "viewing_tokens")
      r2 == Did([rc EXCEPT !.applicantId = vt.applicant_id, !.propertyId = pid], "properties")
      r3 == [r2 EXCEPT !.readStatus = properties[pid]]
      r4 == Did(r3, "viewings")
  IN IF in.method # "POST" THEN text(r0, 405, "Method Not Allowed")
     ELSE IF bodyTooLarge(in.bodyLen, MaxBodyBook) THEN json(r0, 413, "Request too large")
     ELSE IF in.slotId = "" \/ in.token = "" THEN json(r0, 400, "Missing slotId or token")
     ELSE IF StrLen(in.slotId) > MaxSlotIdLen \/ StrLen(in.token) > MaxTokenLen
       THEN json(r0, 400, "Invalid input")
     ELSE IF ~rlIp THEN json(ra, 429, "Rate limit exceeded")
     ELSE IF ~rlTok THEN json(rb, 429, "Rate limit exceeded")
     ELSE IF ~TokenRowResolves(vt) THEN json(rc, 401, "Invalid token")
     ELSE IF pid \notin Properties THEN json(r2, 401, "Invalid token (property missing)")
     ELSE IF ~IsSalesBook(business_type[pid])
       THEN json(r2, 409, "Property is not a sales listing")
     ELSE IF ~IsAvailable(properties[pid]) THEN json(r3, 409, "Property is not available")
     ELSE IF in.slotId \notin Slots THEN json(r4, 404, "Selected slot not found")
     ELSE IF ~SlotMatchesToken(in.slotId, pid)
       THEN json(r4, 401, "Token does not match this slot/property")
     ELSE [r4 EXCEPT !.pc = "existing", !.t0status = viewings[in.slotId].status,
                     !.touches0 = touches[in.slotId],
                     !.held0 = HeldSlots(vt.applicant_id, pid)]

\* The request arrives: input checks, rate limits, 0) token resolution and listing
\* eligibility, 1) the slot and its property.  Of the rows read here only the
\* listing's status ever changes, so the checks are one step.
BookBegin(p, inputs, verdicts) ==
  /\ inv[p].pc \in {"idle", "done"}
  /\ nreq < MaxReq
  /\ \E in \in inputs, rlIp \in verdicts, rlTok \in verdicts :
       LET r0 == [Idle EXCEPT !.kind = "book", !.slotId = in.slotId, !.body = in,
                              !.property_code = in.property_code,
                              !.solo = \A q \in Procs \ {p} : ~InFlight(inv[q])]
           r1 == BookGuards(r0, in, rlIp, rlTok)
       IN /\ Step(p, r1)
          /\ NoteOverlap(p, r1)
  /\ nreq' = nreq + 1
  /\ UNCHANGED <<tables, audit_events, touches>>

\* 2) look up the applicant's existing booking for this property
BookFindExisting(p) ==
  /\ inv[p].kind = "book" /\ inv[p].pc = "existing"
  /\ LET r == inv[p]
         existing == MaybeSingle(BookedBy(r.applicantId, r.propertyId), NULL)
     IN Step(p, [Did(r, "viewings") EXCEPT !.existing = existing,
                          !.pc = IF existing # NULL THEN "release" ELSE "acquire"])
  /\ UNCHANGED <<tables, audit_events, nreq, touches, pairs>>

\* A bug: the release update setting the status alone.
ReleasedRowStatusOnly(s) == [viewings[s] EXCEPT !.status = "available"]

\* The row the release update leaves: { status: "available", applicant_id: null }.
ReleasedRow(s) == [status |-> "available", applicant_id |-> NULL]

\* A bug: the release update matching no row.
ReleaseMatchesNothing(r, s) == FALSE

\* The rows the release update selects: the row found, by id alone.
ReleaseMatches(r, s) == s = r.existing

\* 2) free it
BookRelease(p) ==
  /\ inv[p].kind = "book" /\ inv[p].pc = "release"
  /\ LET r == inv[p]
     IN /\ viewings' = [s \in Slots |->
                          IF ReleaseMatches(r, s) THEN ReleasedRow(s) ELSE viewings[s]]
        /\ touches' = [touches EXCEPT ![r.existing] = @ + 1]
        /\ Step(p, [Did(r, "viewings") EXCEPT !.pc = "acquire", !.existing = NULL, !.wrote = TRUE])
  /\ UNCHANGED <<audit_events, properties, sales_inquiries, applicants,
                 applicant_identity_changes, nreq, pairs>>

\* The row the acquire update leaves: { status: "booked", applicant_id: applicantId }.
AcquiredRow(r) == [status |-> "booked", applicant_id |-> r.applicantId]

\* A bug: the acquire update without its status filter.
AcquireMatchesAnyStatus(r, s) == s = r.slotId

\* A bug: the acquire update excluding only cancelled slots.
AcquireMatchesNotCancelled(r, s) == s = r.slotId /\ viewings[s].status # "cancelled"

\* The rows the acquire update selects: the slot by id, only if still available.
AcquireMatches(r, s) == s = r.slotId /\ viewings[s].status = "available"

\* 3) book the new slot
BookAcquire(p) ==
  /\ inv[p].kind = "book" /\ inv[p].pc = "acquire"
  /\ LET r == inv[p]
         updatedSlots == {s \in Slots : AcquireMatches(r, s)}
     IN /\ viewings' = [s \in Slots |->
                          IF s \in updatedSlots THEN AcquiredRow(r) ELSE viewings[s]]
        /\ touches' = [touches EXCEPT ![r.slotId] = @ + 1]
        /\ Step(p, IF updatedSlots = {}
                   THEN json(Did(r, "viewings"), 400, "Slot not available anymore")
                   ELSE [Did(r, "viewings") EXCEPT !.pc = "inquiry", !.wrote = TRUE])
  /\ UNCHANGED <<audit_events, properties, sales_inquiries, applicants,
                 applicant_identity_changes, nreq, pairs>>

\* Ids of the sales_inquiries rows of an (applicant, property) pair.
InquiryIds(a, pid) ==
  {i \in DOMAIN sales_inquiries : /\ sales_inquiries[i].applicant_id = a
                                  /\ sales_inquiries[i].property_id = pid}

\* A bug: the inquiry lookup finding nothing.
FoundInquiryNever(a, pid) == 0

\* The inquiry lookup's data: the id of the pair's row, 0 for none.
FoundInquiry(a, pid) == MaybeSingle(InquiryIds(a, pid), 0)

\* 4) look up the inquiry row of the pair
BookFindInquiry(p) ==
  /\ inv[p].kind = "book" /\ inv[p].pc = "inquiry"
  /\ LET r == inv[p]
     IN Step(p, [Did(r, "sales_inquiries") EXCEPT !.pc = "writeInquiry",
                          !.existingInquiry =
                             FoundInquiry(r.applicantId, r.propertyId)])
  /\ UNCHANGED <<tables, audit_events, nreq, touches, pairs>>

\* A bug: the inserted row without the booked time.
BookInquiryRowNoTime(r) ==
  [applicant_id |-> r.applicantId, property_id |-> r.propertyId,
   viewing_time |-> NULL, source |-> "booking_token",
   financing_method |-> NULL, own_funds_pct |-> JNull, mortgage_pct |-> JNull,
   form_submitted |-> FALSE]

\* The row bookSlot inserts when it found none.
BookInquiryRow(r) ==
  [applicant_id |-> r.applicantId, property_id |-> r.propertyId,
   viewing_time |-> slot_start[r.slotId], source |-> "booking_token",
   financing_method |-> NULL, own_funds_pct |-> JNull, mortgage_pct |-> JNull,
   form_submitted |-> FALSE]

\* 4) store the booked time: update the row found, else insert one
BookWriteInquiry(p) ==
  /\ inv[p].kind = "book" /\ inv[p].pc = "writeInquiry"
  /\ LET r == inv[p]
     IN /\ sales_inquiries' =
             IF r.existingInquiry # 0
             THEN [sales_inquiries EXCEPT ![r.existingInquiry].viewing_time = slot_start[r.slotId]]
             ELSE Append(sales_inquiries, BookInquiryRow(r))
        /\ Step(p, [Did(r, "sales_inquiries") EXCEPT !.pc = "notify", !.existingInquiry = 0])
  /\ UNCHANGED <<audit_events, properties, viewings, applicants,
                 applicant_identity_changes, nreq, touches, pairs>>

\* What may become of the finance-link request: the service is not configured,
\* it answers with a url, it answers without one (not ok, no url, no JSON), or
\* fetch throws.
LinkOutcomes == {"unconfigured", "url", "failed", "throws"}

\* What may become of the mail: it is sent, the SMTP credentials are missing, or
\* sendMail throws.
MailOutcomes == {"sent", "nocreds", "throws"}

\* A bug: sendMail outside its try block, so that its failure reaches the
\* handler's catch-all.
BookRespondMailUncaught(r, linkOutcome, mailOutcome) ==
  IF mailOutcome = "throws" THEN json(r, 500, "Internal server error")
  ELSE json(r, 200, "ok")

\* 7) the response after the side effects: both are inside their own try
\* blocks, whose catch only logs.
BookRespond(r, linkOutcome, mailOutcome) == json(r, 200, "ok")

\* The invocation after 5) the applicant and property fetch, 6) the finance
\* link and 7) the mail.
BookNotified(r, linkOutcome, mailOutcome) ==
  LET r5 == Did(Did(r, "applicants"), "properties")
      r6 == IF linkOutcome = "unconfigured" THEN r5 ELSE Did(r5, "fetch")
      r7 == IF mailOutcome = "nocreds" THEN r6 ELSE Did(r6, "sendMail")
  IN BookRespond([r7 EXCEPT !.link = linkOutcome, !.mail = mailOutcome],
                 linkOutcome, mailOutcome)

\* 5)-7) finance link and confirmation mail, each of which may fail; then 200.
\* Neither writes to a table.
BookNotify(p, linkOutcomes, mailOutcomes) ==
  /\ inv[p].kind = "book" /\ inv[p].pc = "notify"
  /\ \E linkOutcome \in linkOutcomes, mailOutcome \in mailOutcomes :
       Step(p, BookNotified(inv[p], linkOutcome, mailOutcome))
  /\ UNCHANGED <<tables, audit_events, nreq, touches, pairs>>

\* ---------------------------------------------------- captureSalesFinance

MaxBodyFinance == 50000
MaxPropertyCodeLen == 64
MaxFullNameLen == 200
MaxEmailLen == 254
MaxPhoneLen == 40

\* Number(s) of the strings the model uses; NaN is "not finite".
NumberOf(s) == CASE s = "60" -> JNum(60) [] s = "40" -> JNum(40) [] OTHER -> JNull

\* numberOrNull: null, undefined and "" give null; a string is converted; a value
\* that is not finite gives null.
numberOrNull(v) ==
  IF v.t = "null" \/ (v.t = "str" /\ v.s = "") THEN JNull
  ELSE IF v.t = "str" THEN NumberOf(v.s)
  ELSE v

\* norm: String(v ?? "").trim()
norm(v) == IF v = NULL THEN "" ELSE Trim(v)

\* jwt.verify with FINANCE_LINK_SECRET and HS256: the claims of a token whose
\* signature and expiry verify; verification of any other token throws.  The
\* token of 300 characters is a signed token like the others.
finance_tokens ==
  [j \in {"J1", LongJwt, "Jpurpose", "Jincomplete", "Jmissing"} |->
     IF j = "J1" THEN [purpose |-> "finance_form_v1", applicant_id |-> "A1",
                       property_id |-> "P1", property_code |-> " 077-NP1 "]
     ELSE IF j = LongJwt THEN [purpose |-> "finance_form_v1", applicant_id |-> "A1",
                               property_id |-> "P1", property_code |-> "077-NP1"]
     ELSE IF j = "Jpurpose" THEN [purpose |-> "rental_form", applicant_id |-> "A1",
                                  property_id |-> "P1", property_code |-> "077-NP1"]
     ELSE IF j = "Jincomplete" THEN [purpose |-> "finance_form_v1", applicant_id |-> NULL,
                                     property_id |-> "P1", property_code |-> "077-NP1"]
     ELSE [purpose |-> "finance_form_v1", applicant_id |-> "A9",
           property_id |-> "P1", property_code |-> "077-NP1"]]

JwtVerifies(j) == j \in DOMAIN finance_tokens

\* A bug: no purpose check.
PurposeOkAlways(claims) == TRUE

\* The purpose check of the finance token's claims.
PurposeOk(claims) == claims.purpose = "finance_form_v1"

\* The business-type test of captureSalesFinance.
IsSalesFinance(bt) == ToLowerCase(bt) \in {"sell", "prodej"}

FinBody(tokKind, tok, code, name, email, own, mort) ==
  [method |-> "POST", bodyLen |-> 400, property_code |-> code, applicant_id |-> NULL,
   finance_token |-> IF tokKind = "finance" THEN tok ELSE NULL,
   booking_token |-> IF tokKind = "booking" THEN tok ELSE NULL,
   full_name |-> name, email |-> email, phone |-> "+420777111222",
   gdpr_consent |-> TRUE, financing_method |-> "Hypotekou",
   own_funds_pct |-> own, mortgage_pct |-> mort]

\* Well-formed submissions for (A1, P1): by booking token with the stored identity,
\* and by finance token with another name.
CoreFinInputs ==
  {FinBody("booking", "T1", "077-NP1", "Jana Nova", "jana@example.com", JNum(60), JNum(40)),
   FinBody("finance", "J1", "077-NP1", "Petr Novak", "jana@example.com", JNull, JNull)}

\* Also: other tokens, a property_code other than the token's, percents over 100
\* in sum, a payload applicant_id other than the token's, and requests that fail
\* a check on the request's shape.
FinInputs ==
  CoreFinInputs
  \cup {FinBody("booking", "T2", " 077-NP1 ", " Jana Nova ", "Jana@example.com", JStr("60"), JStr("")),
        FinBody("booking", "T3", "077-NP2", "Jana Nova", "jana@example.com", JNull, JNull),
        FinBody("booking", "T4", "077-NP3", "Jana Nova", "jana@example.com", JNull, JNull),
        FinBody("booking", "T1", "077-NP2", "Jana Nova", "jana@example.com", JNull, JNull),
        FinBody("booking", "bogus", "077-NP1", "Jana Nova", "jana@example.com", JNull, JNull),
        FinBody("finance", "Jexpired", "077-NP1", "Jana Nova", "jana@example.com", JNull, JNull),
        FinBody("finance", "Jpurpose", "077-NP1", "Jana Nova", "jana@example.com", JNull, JNull),
        FinBody("finance", "Jincomplete", "077-NP1", "Jana Nova", "jana@example.com", JNull, JNull),
        FinBody("finance", "Jmissing", "077-NP1", "Jana Nova", "jana@example.com", JNull, JNull),
        FinBody("finance", "J1", "077-NP2", "Jana Nova", "jana@example.com", JNull, JNull),
        FinBody("finance", LongJwt, "077-NP1", "Jana Nova", "jana@example.com", JNull, JNull),
        FinBody("booking", LongToken, "077-NP1", "Jana Nova", "jana@example.com", JNull, JNull),
        FinBody("booking", "T1", LongCode, "Jana Nova", "jana@example.com", JNull, JNull),
        [FinBody("finance", "J1", "077-NP1", "Jana Nova", "jana@example.com", JNull, JNull)
           EXCEPT !.booking_token = "bogus"],
        [FinBody("finance", "J1", "077-NP1", "Jana Nova", "jana@example.com", JNull, JNull)
           EXCEPT !.booking_token = "T2"],
        [FinBody("finance", "Jexpired", "077-NP1", "Jana Nova", "jana@example.com", JNull, JNull)
           EXCEPT !.booking_token = "T1"],
        FinBody("booking", "T1", "077-NP1", LongName, "jana@example.com", JNull, JNull),
        FinBody("booking", "T1", "077-NP1", "Jana Nova", LongEmail, JNull, JNull),
        [FinBody("booking", "T1", "077-NP1", "Jana Nova", "jana@example.com", JNull, JNull)
           EXCEPT !.phone = LongPhone],
        [FinBody("booking", "bogus", "077-NP1", "Jana Nova", "jana@example.com", JNull, JNull)
           EXCEPT !.gdpr_consent = FALSE],
        FinBody("booking", "T1", "077-NP1", "Jana Nova", "jana@example.com", JNum(70), JNum(40)),
        FinBody("booking", "T1", "077-NP1", "Jana Nova", "jana@example.com", JNum(101), JNull),
        FinBody("booking", "T1", "077-NP1", "   ", "jana@example.com", JNull, JNull),
        [FinBody("booking", "T1", "077-NP1", "Petr Novak", "jana@example.com", JNull, JNull)
           EXCEPT !.applicant_id = "A2"],
        [FinBody("booking", "T1", "077-NP1", "Jana Nova", "jana@example.com", JNull, JNull)
           EXCEPT !.gdpr_consent = FALSE],
        [FinBody("booking", "T1", "077-NP1", "Jana Nova", "jana@example.com", JNull, JNull)
           EXCEPT !.method = "GET"],
        [FinBody("booking", "T1", "077-NP1", "Jana Nova", "jana@example.com", JNull, JNull)
           EXCEPT !.bodyLen = 50001]}

\* A bug: the booking token is the one used when both are given.
UsesFinanceTokenAlone(financeToken, bookingToken) == financeToken # "" /\ bookingToken = ""

\* if (financeToken) { .. } else if (bookingToken) { .. }: the finance token is
\* the one used whenever it is given.
UsesFinanceToken(financeToken, bookingToken) == financeToken # ""

\* The token's verdict: the verified (applicant, property), or the response that
\* rejects the request.
FinResolveToken(r0, b) ==
  LET financeToken == norm(b.finance_token)
      bookingToken == norm(b.booking_token)
      claims == finance_tokens[financeToken]
      vt == LookupToken(bookingToken)
      rj == Did(r0, "jwt.verify")
      rt == Did(r0, "viewing_tokens")
      rp == Did(rt, "properties")
  IN IF financeToken = "" /\ bookingToken = ""
       THEN json(r0, 401, "Missing finance_token or booking_token")
     ELSE IF UsesFinanceToken(financeToken, bookingToken) THEN
       IF ~JwtVerifies(financeToken) THEN json(rj, 401, "Invalid or expired finance_token")
       ELSE IF ~PurposeOk(claims) THEN json(rj, 401, "Invalid finance_token purpose")
       ELSE IF claims.applicant_id = NULL \/ claims.property_id = NULL \/ claims.property_code = NULL
         THEN json(rj, 401, "Incomplete finance_token")
       ELSE IF Trim(claims.property_code) # Trim(b.property_code)
         THEN json(rj, 401, "finance_token does not match property_code")
       ELSE [rj EXCEPT !.applicantId = claims.applicant_id, !.propertyId = claims.property_id]
     ELSE
       IF StrLen(bookingToken) > MaxTokenLen THEN json(r0, 400, "booking_token too long")
       ELSE IF vt.applicant_id = NULL \/ vt.property_id = NULL
         THEN json(rt, 401, "Invalid booking_token")
       ELSE IF vt.property_id \notin Properties
         THEN json(rp, 401, "Invalid booking_token (property missing)")
       ELSE IF Trim(property_code[vt.property_id]) # Trim(b.property_code)
         THEN json(rp, 401, "booking_token does not match property_code")
       ELSE [rp EXCEPT !.applicantId = vt.applicant_id, !.propertyId = vt.property_id]

\* A bug: no percent checks.
PercentErrorNone(own, mort) == NULL

\* The percent checks: the error of the first that fails, else null.
PercentError(own, mort) ==
  IF own.t # "null" /\ (own.n < 0 \/ own.n > 100)
    THEN "own_funds_pct must be between 0 and 100"
  ELSE IF mort.t # "null" /\ (mort.n < 0 \/ mort.n > 100)
    THEN "mortgage_pct must be between 0 and 100"
  ELSE IF own.t # "null" /\ mort.t # "null" /\ own.n + mort.n > 100
    THEN "Sum of own_funds_pct and mortgage_pct must be <= 100"
  ELSE NULL

\* The response of the checks that precede the applicant fetch, or pc = "applicant".
FinGuards(r0, b, rlIp) ==
  LET fullName == norm(b.full_name)
      ra == Did(r0, "rateLimit:ip")
      rv == Did(ra, "validate")
      r1 == FinResolveToken(rv, b)
      own == numberOrNull(b.own_funds_pct)
      mort == numberOrNull(b.mortgage_pct)
      pid == r1.propertyId
      rq == Did(r1, "percent")
      rr == Did(rq, "properties")
      r2 == [rr EXCEPT !.readStatus = properties[pid]]
  IN IF b.method # "POST" THEN json(r0, 405, "Method not allowed")
     ELSE IF b.bodyLen = 0 THEN json(r0, 400, "Missing request body")
     ELSE IF bodyTooLarge(b.bodyLen, MaxBodyFinance) THEN json(r0, 413, "Request too large")
     ELSE IF ~rlIp THEN json(ra, 429, "Rate limit exceeded")
     ELSE IF b.property_code = NULL \/ b.property_code = ""
       THEN json(rv, 400, "property_code is required")
     ELSE IF StrLen(b.property_code) > MaxPropertyCodeLen THEN json(rv, 400, "property_code too long")
     ELSE IF fullName = "" THEN json(rv, 400, "full_name is required")
     ELSE IF StrLen(fullName) > MaxFullNameLen THEN json(rv, 400, "full_name too long")
     ELSE IF b.email \in {NULL, ""} \/ b.phone \in {NULL, ""}
       THEN json(rv, 400, "email and phone are required")
     ELSE IF StrLen(b.email) > MaxEmailLen \/ StrLen(b.phone) > MaxPhoneLen
       THEN json(rv, 400, "Invalid email/phone")
     ELSE IF b.gdpr_consent # TRUE THEN json(rv, 400, "GDPR consent must be accepted")
     ELSE IF r1.pc = "done" THEN r1
     ELSE IF PercentError(own, mort) # NULL THEN json(rq, 400, PercentError(own, mort))
     ELSE IF pid \notin Properties THEN json(rr, 404, "Property not found")
     ELSE IF ~IsSalesFinance(business_type[pid])
       THEN json(rr, 400, "Property is not a sales listing")
     ELSE IF ~IsAvailable(properties[pid]) THEN json(r2, 409, "Property is not available")
     ELSE [r2 EXCEPT !.pc = "applicant"]

\* The submission arrives: input checks, rate limit, token resolution, percent
\* checks and the listing's eligibility.  Of the rows read here only the listing's
\* status ever changes, so the checks are one step.
FinBegin(p, inputs, verdicts) ==
  /\ inv[p].pc \in {"idle", "done"}
  /\ nreq < MaxReq
  /\ \E b \in inputs, rlIp \in verdicts :
       LET r1 == FinGuards([Idle EXCEPT !.kind = "finance", !.body = b,
                                        !.property_code = b.property_code,
                                        !.seq = nreq + 1,
                                        !.solo = \A q \in Procs \ {p} : ~InFlight(inv[q])],
                           b, rlIp)
       IN /\ Step(p, r1)
          /\ NoteOverlap(p, r1)
  /\ nreq' = nreq + 1
  /\ UNCHANGED <<tables, audit_events, touches>>

\* A bug: every submission counts as an identity change.
IdentityChangedAlways(existingApplicant, fullName, b) == TRUE

\* Identity change detection.
IdentityChanged(existingApplicant, fullName, b) ==
  \/ norm(existingApplicant.full_name) # norm(fullName)
  \/ norm(existingApplicant.email) # norm(b.email)
  \/ norm(existingApplicant.phone) # norm(b.phone)

\* A bug: the payload's applicant_id, when given, takes the place of the token's.
ResolvedApplicantIdFromBody(b, verifiedApplicantId) ==
  IF b.applicant_id # NULL THEN b.applicant_id ELSE verifiedApplicantId

\* resolvedApplicantId: the applicant is determined by the token.
ResolvedApplicantId(b, verifiedApplicantId) == verifiedApplicantId

\* The invocation after the applicant fetch and the identity change detection.
FinFetched(r0) ==
  LET r == Did(r0, "applicants")
      resolvedApplicantId == ResolvedApplicantId(r.body, r.applicantId)
      fetched == IF resolvedApplicantId \in Applicants
                 THEN applicants[resolvedApplicantId] ELSE NULL
      changed == IdentityChanged(fetched, norm(r.body.full_name), r.body)
  IN IF resolvedApplicantId \notin Applicants
       THEN json([r EXCEPT !.applicantId = resolvedApplicantId], 404, "Applicant not found")
     ELSE [r EXCEPT !.applicantId = resolvedApplicantId,
                    !.existingApplicant = fetched, !.identityChanged = changed,
                    !.pc = IF changed THEN "identityChange" ELSE "updateApplicant"]

\* Fetch the applicant the token names.
FinFetchApplicant(p) ==
  /\ inv[p].kind = "finance" /\ inv[p].pc = "applicant"
  /\ Step(p, FinFetched(inv[p]))
  /\ UNCHANGED <<tables, audit_events, nreq, touches, pairs>>

\* The applicant_identity_changes row of a submission.
IdentityChangeRow(r) ==
  [applicant_id |-> r.applicantId, property_id |-> r.propertyId,
   changed_by |-> "buyer_form",
   old_first_name |-> r.existingApplicant.full_name,
   old_email |-> r.existingApplicant.email,
   old_phone |-> r.existingApplicant.phone,
   new_first_name |-> norm(r.body.full_name),
   new_email |-> r.body.email, new_phone |-> r.body.phone]

\* Log the identity change; the insert may fail (changeErr), which is only warned
\* about.
FinLogIdentityChange(p) ==
  /\ inv[p].kind = "finance" /\ inv[p].pc = "identityChange"
  /\ \E changeErr \in BOOLEAN :
       LET r == inv[p]
       IN /\ applicant_identity_changes' =
               IF changeErr THEN applicant_identity_changes
               ELSE Append(applicant_identity_changes, IdentityChangeRow(r))
          /\ Step(p, [Did(r, "applicant_identity_changes") EXCEPT !.pc = "updateApplicant",
                               !.wrote = @ \/ ~changeErr, !.logged = ~changeErr])
  /\ UNCHANGED <<audit_events, properties, viewings, sales_inquiries, applicants, nreq, touches, pairs>>

\* The fields the applicant update writes.
ApplicantUpdate(r) ==
  [full_name |-> norm(r.body.full_name), email |-> r.body.email,
   phone |-> r.body.phone, agreed_to_gdpr |-> TRUE]

\* Update the applicant's authoritative fields.
FinUpdateApplicant(p) ==
  /\ inv[p].kind = "finance" /\ inv[p].pc = "updateApplicant"
  /\ LET r == inv[p]
     IN /\ applicants' = [applicants EXCEPT ![r.applicantId] = ApplicantUpdate(r)]
        /\ Step(p, [Did(r, "applicants") EXCEPT !.pc = "inquiry", !.existingApplicant = NULL,
                                                 !.wrote = TRUE])
  /\ UNCHANGED <<audit_events, properties, viewings, sales_inquiries, applicant_identity_changes,
                 nreq, touches, pairs>>

\* The applicant update fails in storage (updErr): nothing is written by it, and
\* the handler answers 500.
FinUpdateApplicantFails(p) ==
  /\ inv[p].kind = "finance" /\ inv[p].pc = "updateApplicant"
  /\ Step(p, json(Did(inv[p], "applicants"), 500, "Failed to update applicant"))
  /\ UNCHANGED <<tables, audit_events, nreq, touches, pairs>>

\* Look up the inquiry row of the pair.
FinFindInquiry(p) ==
  /\ inv[p].kind = "finance" /\ inv[p].pc = "inquiry"
  /\ LET r == inv[p]
     IN Step(p, [Did(r, "sales_inquiries") EXCEPT !.pc = "writeInquiry",
                          !.existingInquiry = FoundInquiry(r.applicantId, r.propertyId)])
  /\ UNCHANGED <<tables, audit_events, nreq, touches, pairs>>

\* The row captureSalesFinance inserts when it found none.
FinInquiryRow(r) ==
  [applicant_id |-> r.applicantId, property_id |-> r.propertyId,
   viewing_time |-> NULL, source |-> NULL,
   financing_method |-> r.body.financing_method,
   own_funds_pct |-> numberOrNull(r.body.own_funds_pct),
   mortgage_pct |-> numberOrNull(r.body.mortgage_pct), form_submitted |-> TRUE]

\* The token writeAuditEvent is given: (body.finance_token || body.booking_token
\* || "").trim() || null
FinTokenToHash(b) ==
  LET t == IF b.finance_token \notin {NULL, ""} THEN b.finance_token
           ELSE IF b.booking_token \notin {NULL, ""} THEN b.booking_token ELSE ""
  IN IF Trim(t) = "" THEN NULL ELSE Trim(t)

\* The finance_submitted event of a submission whose inquiry row has the id.
FinAuditData(r, id) ==
  AuditWrite("finance_submitted", r.applicantId, r.propertyId, FinTokenToHash(r.body),
             TRUE, NULL, r.body.property_code, id)

\* The invocation after the inquiry write: the audit event, then 200.
FinResponded(r, id, outcome) ==
  LET r1 == [Did(r, "sales_inquiries") EXCEPT !.salesInquiryId = id, !.wrote = TRUE]
      r2 == Audited(r1, FinAuditData(r1, id), outcome)
  IN IF r2.pc = "done" THEN r2 ELSE json(r2, 200, "ok")

\* Update the row found with the payload, else insert it; then write the audit
\* event, which nothing waits for and no handler reads, and respond.
FinWriteInquiry(p, outcomes) ==
  /\ inv[p].kind = "finance" /\ inv[p].pc = "writeInquiry"
  /\ \E outcome \in outcomes :
      LET r == inv[p]
          row == FinInquiryRow(r)
          id == IF r.existingInquiry # 0 THEN r.existingInquiry ELSE Len(sales_inquiries) + 1
      IN /\ sales_inquiries' =
              IF r.existingInquiry # 0
              THEN [sales_inquiries EXCEPT ![id] =
                      [row EXCEPT !.viewing_time = sales_inquiries[id].viewing_time,
                                  !.source = sales_inquiries[id].source]]
              ELSE Append(sales_inquiries, row)
         /\ audit_events' = AuditedRows(FinResponded(r, id, outcome), outcome)
         /\ Step(p, FinResponded(r, id, outcome))
  /\ UNCHANGED <<properties, viewings, applicants, applicant_identity_changes,
                 nreq, touches, pairs>>

\* The inquiry update or insert fails in storage (updInqErr, insInqErr): nothing
\* is written by it, no audit event follows, and the handler answers 500.
FinWriteInquiryFails(p) ==
  /\ inv[p].kind = "finance" /\ inv[p].pc = "writeInquiry"
  /\ Step(p, json(Did(inv[p], "sales_inquiries"), 500,
                  IF inv[p].existingInquiry # 0 THEN "Failed to update sales inquiry"
                  ELSE "Failed to create sales inquiry"))
  /\ UNCHANGED <<tables, audit_events, nreq, touches, pairs>>

\* ---------------------------------- resolveBookingToken, getBookingPageData

\* GET queries ?token=..&property_code=..
ReadQuery(method, token, code) == [method |-> method, token |-> token, property_code |-> code]

ReadInputs ==
  {ReadQuery("GET", "T1", "077-NP1"),
   ReadQuery("GET", "T1", " 077-NP1 "),
   ReadQuery("GET", "T2", "077-NP1"),
   ReadQuery("GET", "T3", "077-NP2"),
   ReadQuery("GET", "T4", "077-NP3"),
   ReadQuery("GET", "T1", "077-NP2"),
   ReadQuery("GET", "T4", "077-NP1"),
   ReadQuery("GET", "bogus", "077-NP1"),
   ReadQuery("GET", LongToken, "077-NP1"),
   ReadQuery("GET", "T1", LongCode),
   ReadQuery("GET", NULL, "077-NP1"),
   ReadQuery("GET", "T1", NULL),
   ReadQuery("POST", "T1", "077-NP1")}

\* The checks both endpoints make on the query, and the two rate-limit keys: the
\* response that rejects the request, else r0.
ReadShapeGuards(r0, in, rlIp, rlTok) ==
  LET token == norm(in.token)
      propertyCode == norm(in.property_code)
      ra == Did(r0, "rateLimit:ip")
      rb == Did(ra, "rateLimit:tok")
  IN IF in.method # "GET" THEN json(r0, 405, "Method not allowed")
     ELSE IF token = "" THEN json(r0, 400, "Missing token")
     ELSE IF propertyCode = "" THEN json(r0, 400, "Missing property_code")
     ELSE IF StrLen(token) > MaxTokenLen THEN json(r0, 400, "Token too long")
     ELSE IF StrLen(propertyCode) > MaxPropertyCodeLen THEN json(r0, 400, "property_code too long")
     ELSE IF ~rlIp THEN json(ra, 429, "Rate limit exceeded")
     ELSE IF ~rlTok THEN json(rb, 429, "Rate limit exceeded")
     ELSE rb

\* resolveBookingToken: the response.  The listing's eligibility is tested before
\* the property_code.
ResolveRespond(r0, in, rlIp, rlTok) ==
  LET token == norm(in.token)
      propertyCode == norm(in.property_code)
      g == ReadShapeGuards(r0, in, rlIp, rlTok)
      vt == LookupToken(token)
      pid == vt.property_id
      rc == Did(g, "viewing_tokens")
      rd == Did(rc, "properties")
      r1 == [rd EXCEPT !.readStatus = properties[pid]]
  IN IF g.pc = "done" THEN g
     ELSE IF token \notin DOMAIN viewing_tokens THEN json(rc, 401, "Invalid token")
     ELSE IF pid \notin Properties THEN json(rd, 401, "Invalid token (property not found)")
     ELSE IF ~IsSalesBook(business_type[pid]) THEN json(r1, 409, "Property is not a sales listing")
     ELSE IF ~IsAvailable(properties[pid]) THEN json(r1, 409, "Property is not available")
     ELSE IF Trim(property_code[pid]) # propertyCode
       THEN json(r1, 401, "Token does not match property")
     ELSE json([r1 EXCEPT !.applicantId = vt.applicant_id, !.propertyId = pid], 200, "ok")

\* resolveBookingToken: of the rows it reads only the listing's status changes.
ResolveBookingToken(p, inputs, verdicts) ==
  /\ inv[p].pc \in {"idle", "done"}
  /\ nreq < MaxReq
  /\ \E in \in inputs, rlIp \in verdicts, rlTok \in verdicts :
       Step(p, ResolveRespond([Idle EXCEPT !.kind = "resolve", !.query = in,
                                           !.property_code = in.property_code],
                              in, rlIp, rlTok))
  /\ nreq' = nreq + 1
  /\ UNCHANGED <<tables, audit_events, touches, pairs>>

\* getBookingPageData: the response of the checks, or pc = "pageInquiry".  The
\* property_code is tested before the listing's eligibility.
PageGuards(r0, in, rlIp, rlTok) ==
  LET token == norm(in.token)
      propertyCode == norm(in.property_code)
      g == ReadShapeGuards(r0, in, rlIp, rlTok)
      vt == LookupToken(token)
      pid == vt.property_id
      rc == Did(g, "viewing_tokens")
      rd == Did(rc, "properties")
      r1 == [rd EXCEPT !.readStatus = properties[pid]]
  IN IF g.pc = "done" THEN g
     ELSE IF vt.applicant_id = NULL \/ vt.property_id = NULL THEN json(rc, 401, "Invalid token")
     ELSE IF pid \notin Properties THEN json(rd, 401, "Invalid token (property missing)")
     ELSE IF Trim(property_code[pid]) # propertyCode
       THEN json(r1, 401, "Token does not match property")
     ELSE IF ~IsSalesBook(business_type[pid]) THEN json(r1, 409, "Property is not a sales listing")
     ELSE IF ~IsAvailable(properties[pid]) THEN json(r1, 409, "Property is not available")
     ELSE [r1 EXCEPT !.applicantId = vt.applicant_id, !.propertyId = pid, !.pc = "pageInquiry"]

PageBegin(p, inputs, verdicts) ==
  /\ inv[p].pc \in {"idle", "done"}
  /\ nreq < MaxReq
  /\ \E in \in inputs, rlIp \in verdicts, rlTok \in verdicts :
       Step(p, PageGuards([Idle EXCEPT !.kind = "page", !.query = in,
                                       !.property_code = in.property_code],
                          in, rlIp, rlTok))
  /\ nreq' = nreq + 1
  /\ UNCHANGED <<tables, audit_events, touches, pairs>>

\* Epoch order of the slot_start values and of the clock readings around them.
SlotMs(s) == IF slot_start[s] = "2026-01-02T10:00" THEN 10 ELSE 11
Clock == {9, 11, 12}

\* Existing booking banner: the viewing_time of the pair's inquiry row, if any.
\* When the lookup returns the handler reads the clock and sends the slots query.
PageFindInquiry(p) ==
  /\ inv[p].kind = "page" /\ inv[p].pc = "pageInquiry"
  /\ \E nowMs \in Clock :
       LET r == inv[p]
           inq == FoundInquiry(r.applicantId, r.propertyId)
       IN Step(p, [Did(r, "sales_inquiries") EXCEPT !.pc = "pageSlots", !.nowMs = nowMs,
                            !.existingViewingTime =
                               IF inq # 0 THEN sales_inquiries[inq].viewing_time ELSE NULL])
  /\ UNCHANGED <<tables, audit_events, nreq, touches, pairs>>

\* A bug: the slots query without its status filter.
QueriedSlotsAnyStatus(pid) == {s \in Slots : slot_property[s] = pid}

\* The rows of the slots query: the property's slots with status available.
QueriedSlots(pid) ==
  {s \in Slots : slot_property[s] = pid /\ viewings[s].status = "available"}

\* The slots of the query that start at nowMs or later.
FutureSlots(pid, nowMs) == {s \in QueriedSlots(pid) : SlotMs(s) >= nowMs}

\* Available future slots only; then 200.
PageSlots(p) ==
  /\ inv[p].kind = "page" /\ inv[p].pc = "pageSlots"
  /\ LET r == Did(inv[p], "viewings")
     IN Step(p, json([r EXCEPT !.slots = FutureSlots(r.propertyId, r.nowMs)], 200, "ok"))
  /\ UNCHANGED <<tables, audit_events, nreq, touches, pairs>>

\* ------------------------------------------- resolveSalesFinanceContext

\* GET queries: a finance token or a booking token with a property_code.
CtxQuery(method, code, token, bookingToken) ==
  [method |-> method, property_code |-> code, token |-> token, booking_token |-> bookingToken]

CtxInputs ==
  {CtxQuery("GET", "077-NP1", "J1", NULL),
   CtxQuery("GET", " 077-NP1 ", NULL, "T1"),
   CtxQuery("GET", "077-NP2", NULL, "T3"),
   CtxQuery("GET", "077-NP3", NULL, "T4"),
   CtxQuery("GET", "077-NP2", "J1", NULL),
   CtxQuery("GET", "077-NP2", NULL, "T1"),
   CtxQuery("GET", "077-NP1", NULL, "T4"),
   CtxQuery("GET", "077-NP1", "Jexpired", NULL),
   CtxQuery("GET", "077-NP1", "Jpurpose", NULL),
   CtxQuery("GET", "077-NP1", "Jincomplete", NULL),
   CtxQuery("GET", "077-NP1", "Jmissing", NULL),
   CtxQuery("GET", "077-NP1", LongJwt, NULL),
   CtxQuery("GET", "077-NP1", NULL, "bogus"),
   CtxQuery("GET", "077-NP1", NULL, LongToken),
   CtxQuery("GET", LongCode, NULL, "T1"),
   CtxQuery("GET", "077-NP1", "J1", "bogus"),
   CtxQuery("GET", "077-NP1", "J1", "T2"),
   CtxQuery("GET", "077-NP1", "Jexpired", "T1"),
   CtxQuery("GET", "077-NP1", NULL, NULL),
   CtxQuery("GET", NULL, NULL, "T1"),
   CtxQuery("POST", "077-NP1", NULL, "T1")}

\* The finance_context_resolved event of a query.
CtxAuditData(r, ok, reason) ==
  LET financeToken == norm(r.query.token)
      bookingToken == norm(r.query.booking_token)
  IN AuditWrite("finance_context_resolved", r.applicantId, r.propertyId,
                IF financeToken # "" THEN financeToken ELSE bookingToken,
                ok, reason, norm(r.query.property_code), 0)

\* The response of the checks up to the token's resolution, or pc = "ctxApplicant".
CtxGuards(r0, in, rlIp, outcome) ==
  LET propertyCode == norm(in.property_code)
      financeToken == norm(in.token)
      bookingToken == norm(in.booking_token)
      claims == finance_tokens[financeToken]
      vt == LookupToken(bookingToken)
      ra == Did(r0, "rateLimit:ip")
      rj == Did(ra, "jwt.verify")
      rt == Did(ra, "viewing_tokens")
  IN IF in.method # "GET" THEN json(r0, 405, "Method not allowed")
     ELSE IF propertyCode = "" THEN json(r0, 400, "Missing property_code")
     ELSE IF StrLen(propertyCode) > MaxPropertyCodeLen THEN json(r0, 400, "property_code too long")
     ELSE IF financeToken = "" /\ bookingToken = ""
       THEN json(r0, 401, "Missing token or booking_token")
     ELSE IF ~rlIp THEN json(ra, 429, "Rate limit exceeded")
     ELSE IF UsesFinanceToken(financeToken, bookingToken) THEN
       IF ~JwtVerifies(financeToken)
         THEN json(Audited(rj, CtxAuditData(rj, FALSE, "invalid_finance_token"), outcome),
                   401, "Invalid or expired token")
       ELSE IF ~PurposeOk(claims) THEN json(rj, 401, "Invalid token purpose")
       ELSE IF claims.applicant_id = NULL \/ claims.property_id = NULL \/ claims.property_code = NULL
         THEN json(rj, 401, "Incomplete token")
       ELSE IF Trim(claims.property_code) # propertyCode
         THEN json(Audited(rj, CtxAuditData(rj, FALSE, "property_mismatch"), outcome),
                   401, "Token does not match property")
       ELSE [rj EXCEPT !.applicantId = claims.applicant_id, !.propertyId = claims.property_id,
                       !.pc = "ctxApplicant"]
     ELSE
       IF StrLen(bookingToken) > MaxTokenLen THEN json(ra, 400, "booking_token too long")
       ELSE IF vt.applicant_id = NULL \/ vt.property_id = NULL
         THEN json(Audited(rt, CtxAuditData(rt, FALSE, "invalid_booking_token"), outcome),
                   401, "Invalid booking_token")
       ELSE [rt EXCEPT !.applicantId = vt.applicant_id, !.propertyId = vt.property_id,
                       !.pc = "ctxApplicant"]

\* The query arrives: input checks, rate limit, token resolution.
CtxBegin(p, inputs, verdicts, outcomes) ==
  /\ inv[p].pc \in {"idle", "done"}
  /\ nreq < MaxReq
  /\ \E in \in inputs, rlIp \in verdicts, outcome \in outcomes :
       LET r1 == CtxGuards([Idle EXCEPT !.kind = "context", !.query = in,
                                        !.property_code = in.property_code], in, rlIp, outcome)
       IN /\ Step(p, r1)
          /\ audit_events' = AuditedRows(r1, outcome)
  /\ nreq' = nreq + 1
  /\ UNCHANGED <<tables, touches, pairs>>

\* Fetch the applicant's id, full_name, email, phone.
CtxFetchApplicant(p) ==
  /\ inv[p].kind = "context" /\ inv[p].pc = "ctxApplicant"
  /\ LET r == Did(inv[p], "applicants")
     IN Step(p, IF r.applicantId \notin Applicants THEN json(r, 404, "Applicant not found")
                ELSE [r EXCEPT !.pc = "ctxProperty",
                               !.existingApplicant = applicants[r.applicantId]])
  /\ UNCHANGED <<tables, audit_events, nreq, touches, pairs>>

\* The response once the property is fetched: property_code match and sales
\* listing are enforced, then the applicant and the property are returned.
CtxRespond(r0, outcome) ==
  LET r == Did(r0, "properties")
      pid == r.propertyId
      propertyCode == norm(r.query.property_code)
      r1 == [r EXCEPT !.readStatus = properties[pid]]
  IN IF pid \notin Properties THEN json(r, 404, "Property not found")
     ELSE IF Trim(property_code[pid]) # propertyCode
       THEN json(Audited(r1, CtxAuditData(r1, FALSE, "property_mismatch"), outcome),
                 401, "Context does not match property")
     ELSE IF ~IsSalesBook(business_type[pid])
       THEN json(Audited(r1, CtxAuditData(r1, FALSE, "not_sales"), outcome),
                 409, "Property is not a sales listing")
     ELSE json([Audited(r1, CtxAuditData(r1, TRUE, NULL), outcome) EXCEPT !.applicant =
                  {[id |-> r.applicantId, full_name |-> r.existingApplicant.full_name,
                    email |-> r.existingApplicant.email,
                    phone |-> r.existingApplicant.phone]}], 200, "ok")

\* Fetch the property and respond.
CtxFetchProperty(p, outcomes) ==
  /\ inv[p].kind = "context" /\ inv[p].pc = "ctxProperty"
  /\ \E outcome \in outcomes :
       /\ Step(p, CtxRespond(inv[p], outcome))
       /\ audit_events' = AuditedRows(CtxRespond(inv[p], outcome), outcome)
  /\ UNCHANGED <<tables, nreq, touches, pairs>>

\* ------------------------------------------------------ utils/rateLimit

\* The keys of the store and the rule each key is always called with.
Keys == {"ip", "tok"}
Rules == [k \in Keys |-> IF k = "ip" THEN [max |-> 2, windowMs |-> 3]
                         ELSE [max |-> 1, windowMs |-> 2]]

\* Math.min of a non-empty array of timestamps.
MathMin(ts) == CHOOSE t \in {ts[i] : i \in DOMAIN ts} : \A i \in DOMAIN ts : t <= ts[i]

\* Math.max(0, n)
AtLeastZero(n) == IF n < 0 THEN 0 ELSE n

\* A bug: the filter drops every timestamp.
RecentNone(bucket, windowStart) == <<>>

\* bucket.filter((t) => t > windowStart)
Recent(bucket, windowStart) ==
  LET newer(t) == t > windowStart IN SelectSeq(bucket, newer)

\* A bug: a rejected attempt is recorded.
RejectedBucketRecords(recent, t) == Append(recent, t)

\* The bucket stored on a rejection: the recent timestamps.
RejectedBucket(recent, t) == recent

\* rateLimit(rule) at time t: the result and the key's new bucket.
rateLimit(key, rule, t) ==
  LET windowStart == t - rule.windowMs
      bucket == store[key]
      recent == Recent(bucket, windowStart)
      pushed == Append(recent, t)
  IN IF Len(recent) >= rule.max
     THEN [bucket |-> RejectedBucket(recent, t),
           result |-> [allowed |-> FALSE, remaining |-> 0,
                       resetMs |-> AtLeastZero(MathMin(recent) + rule.windowMs - t)]]
     ELSE [bucket |-> pushed,
           result |-> [allowed |-> TRUE, remaining |-> AtLeastZero(rule.max - Len(pushed)),
                       resetMs |-> AtLeastZero(MathMin(pushed) + rule.windowMs - t)]]

\* A handler of the instance calls rateLimit for key k.
RateLimitCall(k) ==
  /\ LET out == rateLimit(k, Rules[k], now)
     IN /\ store' = [store EXCEPT ![k] = out.bucket]
        /\ last' = [key |-> k, allowed |-> out.result.allowed,
                    remaining |-> out.result.remaining, resetMs |-> out.result.resetMs]
        /\ allowedAt' = IF out.result.allowed
                        THEN [allowedAt EXCEPT ![k] = Append(@, now)] ELSE allowedAt
        /\ rejectedAt' =
             [rejectedAt EXCEPT ![k] =
                {rej \in @ : now < rej.t + rej.resetMs}
                \cup (IF out.result.allowed THEN {}
                      ELSE {[t |-> now, resetMs |-> out.result.resetMs]})]
  /\ UNCHANGED <<tables, audit_events, inv, nreq, touches, pairs, now>>

\* Date.now() advances.
Tick ==
  /\ now < MaxClock
  /\ now' = now + 1
  /\ UNCHANGED <<tables, audit_events, inv, nreq, touches, pairs, store, last, allowedAt,
                 rejectedAt>>

\* ------------------------------------------------------- external changes

\* Every invocation notes an external change.
NoteExternal ==
  /\ inv' = [q \in Procs |-> Disturb(inv[q])]
  /\ UNCHANGED limiter

\* A booked slot is cancelled from outside the core.
CancelSlot(s) ==
  /\ viewings[s].status = "booked"
  /\ viewings' = [viewings EXCEPT ![s].status = "cancelled"]
  /\ touches' = [touches EXCEPT ![s] = @ + 1]
  /\ NoteExternal
  /\ UNCHANGED <<audit_events, properties, sales_inquiries, applicants,
                 applicant_identity_changes, nreq, pairs>>

\* A listing's status is changed from outside the core.
SetPropertyStatus(pid) ==
  /\ properties' = [properties EXCEPT ![pid] = IF @ = "available" THEN "sold" ELSE "available"]
  /\ NoteExternal
  /\ UNCHANGED <<audit_events, viewings, sales_inquiries, applicants,
                 applicant_identity_changes, nreq, touches, pairs>>

\* ---------------------------------------------------------- specification

Init ==
  /\ properties = [pr \in Properties |-> "available"]
  /\ viewings = [s \in Slots |-> [status |-> "available", applicant_id |-> NULL]]
  /\ sales_inquiries = <<>>
  /\ applicants = [a \in Applicants |->
                     [full_name |-> "Jana Nova", email |-> "jana@example.com",
                      phone |-> "+420777111222", agreed_to_gdpr |-> FALSE]]
  /\ applicant_identity_changes = <<>>
  /\ audit_events = <<>>
  /\ inv = [p \in Procs |-> Idle]
  /\ nreq = 0
  /\ touches = [s \in Slots |-> 0]
  /\ overlapped = {}
  /\ overlappedAny = {}
  /\ store = [k \in Keys |-> <<>>]
  /\ now = 0
  /\ last = [key |-> NULL, allowed |-> TRUE, remaining |-> 0, resetMs |-> 0]
  /\ allowedAt = [k \in Keys |-> <<>>]
  /\ rejectedAt = [k \in Keys |-> {}]

Next ==
  \/ \E p \in Procs : BookBegin(p, CoreBookInputs, {TRUE})
  \/ \E p \in Procs : BookFindExisting(p)
  \/ \E p \in Procs : BookRelease(p)
  \/ \E p \in Procs : BookAcquire(p)
  \/ \E p \in Procs : BookFindInquiry(p)
  \/ \E p \in Procs : BookWriteInquiry(p)
  \/ \E p \in Procs : BookNotify(p, {"url"}, {"sent"})
  \/ \E p \in Procs : FinBegin(p, CoreFinInputs, {TRUE})
  \/ \E p \in Procs : FinFetchApplicant(p)
  \/ \E p \in Procs : FinLogIdentityChange(p)
  \/ \E p \in Procs : FinUpdateApplicant(p)
  \/ \E p \in Procs : FinFindInquiry(p)
  \/ \E p \in Procs : FinWriteInquiry(p, {"stored"})
  \/ \E s \in Slots : CancelSlot(s)
  \/ \E pid \in Properties : SetPropertyStatus(pid)

Spec == Init /\ [][Next]_vars

\* One invocation at a time, with every request the model enumerates and both
\* verdicts of each rate-limit key.
NextSeq ==
  \/ BookBegin("p1", BookInputs, BOOLEAN)
  \/ BookFindExisting("p1")
  \/ BookRelease("p1")
  \/ BookAcquire("p1")
  \/ BookFindInquiry("p1")
  \/ BookWriteInquiry("p1")
  \/ BookNotify("p1", LinkOutcomes, MailOutcomes)
  \/ FinBegin("p1", FinInputs, BOOLEAN)
  \/ FinFetchApplicant("p1")
  \/ FinLogIdentityChange("p1")
  \/ FinUpdateApplicant("p1")
  \/ FinFindInquiry("p1")
  \/ FinWriteInquiry("p1", AuditOutcomes)
  \/ ResolveBookingToken("p1", ReadInputs, BOOLEAN)
  \/ PageBegin("p1", ReadInputs, BOOLEAN)
  \/ PageFindInquiry("p1")
  \/ PageSlots("p1")
  \/ CtxBegin("p1", CtxInputs, BOOLEAN, AuditOutcomes)
  \/ CtxFetchApplicant("p1")
  \/ CtxFetchProperty("p1", AuditOutcomes)
  \/ \E s \in Slots : CancelSlot(s)
  \/ \E pid \in Properties : SetPropertyStatus(pid)

SpecSeq == Init /\ [][NextSeq]_vars

\* The races that need an applicant who already holds a slot: the state Spec is
\* in after applicant A1 has booked S1 with token T1 and a further booking
\* request has just passed its checks, with the count of requests begun anew.
HeldBooking == [Idle EXCEPT !.kind = "book", !.slotId = "S1", !.applicantId = "A1",
                            !.propertyId = "P1"]
InitHeld ==
  /\ properties = [pr \in Properties |-> "available"]
  /\ viewings = [s \in Slots |-> IF s = "S1" THEN AcquiredRow(HeldBooking)
                                 ELSE [status |-> "available", applicant_id |-> NULL]]
  /\ sales_inquiries = <<BookInquiryRow(HeldBooking)>>
  /\ applicants = [a \in Applicants |->
                     [full_name |-> "Jana Nova", email |-> "jana@example.com",
                      phone |-> "+420777111222", agreed_to_gdpr |-> FALSE]]
  /\ applicant_identity_changes = <<>>
  /\ audit_events = <<>>
  /\ touches = [s \in Slots |-> IF s = "S1" THEN 1 ELSE 0]
  /\ \E in \in CoreBookInputs :
       inv = [p \in Procs |->
                IF p = "p1"
                THEN BookGuards([Idle EXCEPT !.kind = "book", !.slotId = in.slotId, !.body = in,
                                             !.property_code = in.property_code,
                                             !.solo = TRUE], in, TRUE, TRUE)
                ELSE Idle]
  /\ nreq = 0
  /\ overlapped = {}
  /\ overlappedAny = {}
  /\ store = [k \in Keys |-> <<>>]
  /\ now = 0
  /\ last = [key |-> NULL, allowed |-> TRUE, remaining |-> 0, resetMs |-> 0]
  /\ allowedAt = [k \in Keys |-> <<>>]
  /\ rejectedAt = [k \in Keys |-> {}]

\* Booking requests alone, two at a time.
NextHeld ==
  \/ \E p \in Procs : BookBegin(p, CoreBookInputs, {TRUE})
  \/ \E p \in Procs : BookFindExisting(p)
  \/ \E p \in Procs : BookRelease(p)
  \/ \E p \in Procs : BookAcquire(p)
  \/ \E p \in Procs : BookFindInquiry(p)
  \/ \E p \in Procs : BookWriteInquiry(p)
  \/ \E p \in Procs : BookNotify(p, {"url"}, {"sent"})

SpecHeld == InitHeld /\ [][NextHeld]_vars

\* Booking requests alone, one at a time, with every request the model
\* enumerates and both verdicts of each rate-limit key; nothing changes a slot
\* from outside.
NextHeldSeq ==
  \/ BookBegin("p1", BookInputs, BOOLEAN)
  \/ BookFindExisting("p1")
  \/ BookRelease("p1")
  \/ BookAcquire("p1")
  \/ BookFindInquiry("p1")
  \/ BookWriteInquiry("p1")
  \/ BookNotify("p1", LinkOutcomes, MailOutcomes)

SpecHeldSeq == InitHeld /\ [][NextHeldSeq]_vars

\* The state Spec is in after two overlapping requests of applicant A1, for S1
\* and for S2, have both found no existing booking and both succeeded: A1 holds
\* two slots of P1, and the inquiry row carries the time of the later write.
SecondBooking == [HeldBooking EXCEPT !.slotId = "S2"]
InitTwoHeld ==
  /\ properties = [pr \in Properties |-> "available"]
  /\ viewings = [s \in Slots |-> IF s = "S1" THEN AcquiredRow(HeldBooking)
                                 ELSE IF s = "S2" THEN AcquiredRow(SecondBooking)
                                 ELSE [status |-> "available", applicant_id |-> NULL]]
  /\ sales_inquiries = <<BookInquiryRow(SecondBooking)>>
  /\ applicants = [a \in Applicants |->
                     [full_name |-> "Jana Nova", email |-> "jana@example.com",
                      phone |-> "+420777111222", agreed_to_gdpr |-> FALSE]]
  /\ applicant_identity_changes = <<>>
  /\ audit_events = <<>>
  /\ touches = [s \in Slots |-> IF s \in {"S1", "S2"} THEN 1 ELSE 0]
  /\ inv = [p \in Procs |-> Idle]
  /\ nreq = 0
  /\ overlapped = {}
  /\ overlappedAny = {}
  /\ store = [k \in Keys |-> <<>>]
  /\ now = 0
  /\ last = [key |-> NULL, allowed |-> TRUE, remaining |-> 0, resetMs |-> 0]
  /\ allowedAt = [k \in Keys |-> <<>>]
  /\ rejectedAt = [k \in Keys |-> {}]

\* The requests of BookInputs and those for the fourth slot of P1.
TwoHeldInputs ==
  BookInputs
  \cup {[method |-> "POST", bodyLen |-> 60, slotId |-> "S4", token |-> t,
         property_code |-> "077-NP1"] : t \in {"T1", "T2"}}

\* Booking requests alone, one at a time, from the doubly booked state.
NextTwoHeld ==
  \/ BookBegin("p1", TwoHeldInputs, BOOLEAN)
  \/ BookFindExisting("p1")
  \/ BookRelease("p1")
  \/ BookAcquire("p1")
  \/ BookFindInquiry("p1")
  \/ BookWriteInquiry("p1")
  \/ BookNotify("p1", LinkOutcomes, MailOutcomes)

SpecTwoHeld == InitTwoHeld /\ [][NextTwoHeld]_vars

\* The endpoints that write audit events, two invocations at a time, with
\* requests that differ in nothing but the token among them.
AuditFinInputs ==
  CoreFinInputs
  \cup
  {FinBody("booking", "T2", "077-NP1", "Jana Nova", "jana@example.com", JNum(60), JNum(40)),
   FinBody("finance", "J1", "077-NP1", "Jana Nova", "jana@example.com", JNum(60), JNum(40)),
   FinBody("finance", LongJwt, "077-NP1", "Jana Nova", "jana@example.com", JNum(60), JNum(40))}

NextAudit ==
  \/ \E p \in Procs : CtxBegin(p, CtxInputs, {TRUE}, AuditOutcomes)
  \/ \E p \in Procs : CtxFetchApplicant(p)
  \/ \E p \in Procs : CtxFetchProperty(p, AuditOutcomes)
  \/ \E p \in Procs : FinBegin(p, AuditFinInputs, {TRUE})
  \/ \E p \in Procs : FinFetchApplicant(p)
  \/ \E p \in Procs : FinLogIdentityChange(p)
  \/ \E p \in Procs : FinUpdateApplicant(p)
  \/ \E p \in Procs : FinFindInquiry(p)
  \/ \E p \in Procs : FinWriteInquiry(p, AuditOutcomes)

SpecAudit == Init /\ [][NextAudit]_vars

\* Finance submissions alone, one at a time, with storage writes that may fail.
NextFault ==
  \/ FinBegin("p1", FinInputs, BOOLEAN)
  \/ FinFetchApplicant("p1")
  \/ FinLogIdentityChange("p1")
  \/ FinUpdateApplicant("p1")
  \/ FinUpdateApplicantFails("p1")
  \/ FinFindInquiry("p1")
  \/ FinWriteInquiry("p1", AuditOutcomes)
  \/ FinWriteInquiryFails("p1")

SpecFault == Init /\ [][NextFault]_vars

\* The limiter of one warm instance alone: calls for its keys as time passes.
NextLimiter ==
  \/ \E k \in Keys : RateLimitCall(k)
  \/ Tick

SpecLimiter == Init /\ [][NextLimiter]_vars

\* ------------------------------------------------------------ the claims

\* The error taxonomy of the responses: Conflict is 409, and 400 for a lost slot
\* and for a listing that is not a sales listing.
Outcome(r) ==
  CASE r.statusCode = 200 -> "Success"
    [] r.statusCode = 401 -> "Unauthorized"
    [] r.statusCode = 404 -> "NotFound"
    [] r.statusCode = 409 -> "Conflict"
    [] r.statusCode = 429 -> "RateLimited"
    [] r.statusCode = 500 -> "Internal"
    [] r.statusCode = 400 /\ r.error \in {"Slot not available anymore",
                                          "Property is not a sales listing"} -> "Conflict"
    [] r.statusCode = 400 /\ r.error \notin {"Slot not available anymore",
                                             "Property is not a sales listing"} -> "BadRequest"
    [] r.statusCode = 413 -> "BadRequest"
    [] OTHER -> "Other"

\* A booking request that has returned after attempting the acquire.
ReturnedFromAcquire(r) ==
  /\ r.kind = "book" /\ r.pc = "done"
  /\ r.error \in {"ok", "Slot not available anymore"}

\* p and q are the only two requests that addressed slot s since either began:
\* requests of different applicants for s, both begun while s was available and
\* before either attempted the acquire, with no other write to s since.
Race(p, q, s) ==
  /\ p # q
  /\ ReturnedFromAcquire(inv[p]) /\ ReturnedFromAcquire(inv[q])
  /\ inv[p].slotId = s /\ inv[q].slotId = s
  /\ inv[p].applicantId # inv[q].applicantId
  /\ inv[p].t0status = "available" /\ inv[q].t0status = "available"
  /\ inv[p].touches0 = inv[q].touches0
  /\ touches[s] = inv[p].touches0 + 2

\* C1: no double booking.  When two booking requests of different applicants race
\* for an available slot, exactly one returns success, the other returns
\* Conflict("Slot not available anymore"), and the slot is booked by the winner.
C1_NoDoubleBooking ==
  \A p \in Procs, q \in Procs, s \in Slots :
    (Race(p, q, s) /\ inv[p].statusCode = 200) =>
      /\ inv[q].statusCode # 200
      /\ inv[q].error = "Slot not available anymore" /\ Outcome(inv[q]) = "Conflict"
      /\ viewings[s] = [status |-> "booked", applicant_id |-> inv[p].applicantId]

\* C1, the other half: one of the two does succeed.
C1_OneSucceeds ==
  \A p \in Procs, q \in Procs, s \in Slots :
    Race(p, q, s) => (inv[p].statusCode = 200 \/ inv[q].statusCode = 200)

C1_Theorem == C1_NoDoubleBooking /\ C1_OneSucceeds

C1_Witness ==
  \E p \in Procs, q \in Procs, s \in Slots :
    Race(p, q, s) /\ inv[p].statusCode = 200 /\ inv[q].statusCode = 400

\* C2 as stated: at most one slot per (applicant, property) is booked, in every
\* reachable state.
C2_OneBookedPerPair ==
  \A a \in Applicants, pid \in Properties : Cardinality(HeldSlots(a, pid)) <= 1

\* C2 amended: at most one slot per (applicant, property) is booked, as long as no
\* two booking requests of that applicant for that property have overlapped.
C2_OneBookedUnlessOverlapped ==
  \A a \in Applicants, pid \in Properties :
    <<a, pid>> \notin overlapped => Cardinality(HeldSlots(a, pid)) <= 1

\* A second booking of a pair whose requests never overlapped has returned.
C2_Witness ==
  \E p \in Procs :
    /\ inv[p].kind = "book" /\ inv[p].pc = "done" /\ inv[p].statusCode = 200
    /\ inv[p].held0 # {}
    /\ <<inv[p].applicantId, inv[p].propertyId>> \notin overlapped
    /\ HeldSlots(inv[p].applicantId, inv[p].propertyId) = {inv[p].slotId}

\* A booking request that ran alone, by an applicant who held exactly one booked
\* slot of the property when it began, for another slot that was available then.
Rebooking(r) ==
  /\ r.kind = "book" /\ r.pc = "done" /\ r.solo
  /\ r.t0status = "available"
  /\ Cardinality(r.held0) = 1 /\ r.slotId \notin r.held0

\* C3: sequential re-booking.  Such a request returns success; afterwards the new
\* slot is booked by the applicant, the old one is available with no applicant,
\* and the applicant holds exactly one booked slot of the property.
C3_SequentialRebooking ==
  \A p \in Procs :
    Rebooking(inv[p]) =>
      /\ inv[p].statusCode = 200
      /\ viewings[inv[p].slotId] = [status |-> "booked", applicant_id |-> inv[p].applicantId]
      /\ \A s \in inv[p].held0 : viewings[s] = [status |-> "available", applicant_id |-> NULL]
      /\ HeldSlots(inv[p].applicantId, inv[p].propertyId) = {inv[p].slotId}

C3_Witness == \E p \in Procs : Rebooking(inv[p]) /\ inv[p].statusCode = 200

\* C4: eligibility gate.  A booking request or finance submission that reads a
\* listing status other than "available" is rejected with Conflict and has
\* written nothing.
C4_EligibilityGate ==
  \A p \in Procs :
    inv[p].readStatus \notin {NULL, "available"} =>
      /\ inv[p].pc = "done"
      /\ Outcome(inv[p]) = "Conflict" /\ inv[p].error = "Property is not available"
      /\ ~inv[p].wrote

\* A booking request and a finance submission, both with valid tokens, rejected
\* for a listing that was available before.
C4_Witness ==
  \E p \in Procs, q \in Procs :
    /\ inv[p].kind = "book" /\ inv[q].kind = "finance"
    /\ inv[p].readStatus = "sold" /\ inv[q].readStatus = "sold"
    /\ inv[p].statusCode = 409 /\ inv[q].statusCode = 409

\* A returned booking request that carried a valid token and a property_code
\* other than the code of the token's property.
MismatchedCode(r) ==
  /\ r.kind = "book" /\ r.pc = "done"
  /\ r.applicantId \in Applicants /\ r.propertyId \in Properties
  /\ r.property_code # NULL
  /\ Trim(r.property_code) # property_code[r.propertyId]

\* C5: token/property binding on booking.  A booking request with a valid token
\* and a property_code other than that of the token's property is rejected with
\* Unauthorized and has booked no slot.
C5_MismatchedCodeUnauthorized ==
  \A p \in Procs :
    MismatchedCode(inv[p]) => (Outcome(inv[p]) = "Unauthorized" /\ ~inv[p].wrote)

\* A booking request whose token is bound to one property and whose slot belongs
\* to another.
CrossProperty(r) ==
  /\ r.kind = "book" /\ r.propertyId \in Properties /\ r.slotId \in Slots
  /\ slot_property[r.slotId] # r.propertyId

\* A cross-property request is rejected before it writes, with Unauthorized when
\* the listing of its token is eligible.
C6_Rejected ==
  \A p \in Procs :
    CrossProperty(inv[p]) =>
      /\ inv[p].pc = "done" /\ ~inv[p].wrote
      /\ inv[p].readStatus = "available" =>
           /\ Outcome(inv[p]) = "Unauthorized"
           /\ inv[p].error = "Token does not match this slot/property"

\* The booking requests write a slot only in the release and acquire steps of a
\* request whose token is bound to the slot's property.
C6_WritesOwnProperty ==
  \A s \in Slots :
    (viewings'[s] # viewings[s] /\ viewings'[s].status # "cancelled") =>
      \E p \in Procs : /\ inv[p].kind = "book" /\ inv[p].pc \in {"release", "acquire"}
                       /\ inv'[p].pc # inv[p].pc
                       /\ inv[p].propertyId = slot_property[s]

\* C6: cross-property protection.  A booking request whose token is bound to
\* property A is rejected with Unauthorized before its release and acquire steps
\* when its slot belongs to another property B, and no slot is ever changed by a
\* request whose token is bound to another property than the slot's.
C6_CrossProperty == [][C6_Rejected' /\ C6_WritesOwnProperty]_vars

C6_Witness ==
  \E p \in Procs :
    /\ CrossProperty(inv[p]) /\ inv[p].statusCode = 401
    /\ \E s \in Slots : viewings[s].status = "booked"

\* p takes its acquire step.
Acquires(p) ==
  inv[p].kind = "book" /\ inv[p].pc = "acquire" /\ inv'[p].pc # "acquire"

\* C7: losing the acquire.  A booking request whose target is not available when
\* the acquire is written returns Conflict("Slot not available anymore"), not a
\* server error, and the target's status and applicant_id stay as they were.
C7_LosingTheAcquire ==
  [][\A p \in Procs :
       (Acquires(p) /\ viewings[inv[p].slotId].status # "available") =>
         /\ inv'[p].pc = "done"
         /\ inv'[p].error = "Slot not available anymore"
         /\ Outcome(inv'[p]) = "Conflict" /\ inv'[p].statusCode # 500
         /\ viewings'[inv[p].slotId] = viewings[inv[p].slotId]]_vars

\* A request has lost the acquire to another applicant's booking.
C7_Witness ==
  \E p \in Procs :
    /\ inv[p].kind = "book" /\ inv[p].pc = "done"
    /\ inv[p].error = "Slot not available anymore"
    /\ viewings[inv[p].slotId].status = "booked"
    /\ viewings[inv[p].slotId].applicant_id # inv[p].applicantId

\* A request has lost the acquire on a cancelled slot.
C7_WitnessCancelled ==
  \E p \in Procs :
    /\ inv[p].kind = "book" /\ inv[p].pc = "done"
    /\ inv[p].error = "Slot not available anymore"
    /\ viewings[inv[p].slotId].status = "cancelled"

\* C8: slot state machine.  Every change of a slot is available -> booked,
\* booked -> available or the external booked -> cancelled, and a cancelled slot
\* is never changed.
C8_SlotStateMachine ==
  [][\A s \in Slots :
       viewings'[s].status # viewings[s].status =>
         <<viewings[s].status, viewings'[s].status>> \in
           {<<"available", "booked">>, <<"booked", "available">>,
            <<"booked", "cancelled">>}]_vars

\* p returns from a successful booking.
Returns(p) == inv[p].kind = "book" /\ inv[p].pc = "notify" /\ inv'[p].pc = "done"

\* p takes the write step of the inquiry upsert.
WritesInquiry(p) ==
  inv[p].kind = "book" /\ inv[p].pc = "writeInquiry" /\ inv'[p].pc = "notify"

\* The pair of r has a row whose viewing_time is the slot_start of r's slot.
HasViewingTime(r, rows) ==
  \E i \in DOMAIN rows : /\ rows[i].applicant_id = r.applicantId
                         /\ rows[i].property_id = r.propertyId
                         /\ rows[i].viewing_time = slot_start[r.slotId]

\* C9 as stated: whenever a booking request returns success, a row of its pair
\* has the slot_start of the slot the request booked as its viewing_time.
C9_ViewingTimeAtReturn ==
  [][\A p \in Procs : Returns(p) => HasViewingTime(inv[p], sales_inquiries')]_vars

\* C9 amended: when a booking request has written the inquiry, a row of its pair
\* has the slot_start of its slot as viewing_time, and a row with source
\* "booking_token" was created if the pair had none; the same row is there when
\* the request returns unless another booking of the pair overlapped.
C9_ViewingTimeAfterWrite ==
  [][\A p \in Procs :
       /\ WritesInquiry(p) =>
            /\ HasViewingTime(inv[p], sales_inquiries')
            /\ InquiryIds(inv[p].applicantId, inv[p].propertyId) = {} =>
                 /\ Len(sales_inquiries') = Len(sales_inquiries) + 1
                 /\ sales_inquiries'[Len(sales_inquiries')].source = "booking_token"
                 /\ sales_inquiries'[Len(sales_inquiries')].applicant_id = inv[p].applicantId
                 /\ sales_inquiries'[Len(sales_inquiries')].property_id = inv[p].propertyId
       /\ (Returns(p) /\ <<inv[p].applicantId, inv[p].propertyId>> \notin overlapped) =>
            HasViewingTime(inv[p], sales_inquiries')]_vars

\* A booking has returned success for a pair that had no row; the row created
\* carries the booked time.
C9_Witness ==
  \E p \in Procs :
    /\ inv[p].kind = "book" /\ inv[p].pc = "done" /\ inv[p].statusCode = 200
    /\ <<inv[p].applicantId, inv[p].propertyId>> \notin overlapped
    /\ \E i \in DOMAIN sales_inquiries :
         /\ sales_inquiries[i].applicant_id = inv[p].applicantId
         /\ sales_inquiries[i].property_id = inv[p].propertyId
         /\ sales_inquiries[i].source = "booking_token"
         /\ sales_inquiries[i].viewing_time = slot_start[inv[p].slotId]

\* C10 as stated: at most one sales_inquiries row per (applicant, property), in
\* every reachable state.
C10_OneInquiryPerPair ==
  \A a \in Applicants, pid \in Properties : Cardinality(InquiryIds(a, pid)) <= 1

\* C10 amended: at most one sales_inquiries row per (applicant, property), as long
\* as no two requests writing the pair's row have overlapped.
C10_OneInquiryUnlessOverlapped ==
  \A a \in Applicants, pid \in Properties :
    <<a, pid>> \notin overlappedAny => Cardinality(InquiryIds(a, pid)) <= 1

\* A booking and a finance submission of one pair, one after the other, have both
\* returned success and the pair has one row.
C10_Witness ==
  \E p \in Procs, q \in Procs :
    /\ inv[p].kind = "book" /\ inv[q].kind = "finance"
    /\ inv[p].pc = "done" /\ inv[q].pc = "done"
    /\ inv[p].statusCode = 200 /\ inv[q].statusCode = 200
    /\ inv[p].applicantId = inv[q].applicantId /\ inv[p].propertyId = inv[q].propertyId
    /\ <<inv[p].applicantId, inv[p].propertyId>> \notin overlappedAny
    /\ Cardinality(InquiryIds(inv[p].applicantId, inv[p].propertyId)) = 1

\* q's finance submission was the next request after p's and ran after p's had
\* returned, with nothing in between, both with success and with the same body
\* (token and identity fields).
Resubmission(p, q) ==
  /\ p # q
  /\ inv[q].seq = inv[p].seq + 1
  /\ inv[p].kind = "finance" /\ inv[q].kind = "finance"
  /\ inv[p].pc = "done" /\ inv[q].pc = "done"
  /\ inv[p].statusCode = 200 /\ inv[q].statusCode = 200
  /\ inv[q].solo
  /\ inv[p].body = inv[q].body
  /\ <<inv[q].applicantId, inv[q].propertyId>> \notin overlappedAny

\* C11: idempotent re-submission.  The second of two finance submissions in
\* sequence with the same token and identity fields returns identity_changed =
\* false and the sales_inquiry_id of the first, writes no identity-change row, and
\* the pair has exactly one sales_inquiries row.
C11_IdempotentResubmission ==
  \A p \in Procs, q \in Procs :
    Resubmission(p, q) =>
      /\ ~inv[q].identityChanged /\ ~inv[q].logged
      /\ inv[q].salesInquiryId = inv[p].salesInquiryId
      /\ Cardinality(InquiryIds(inv[q].applicantId, inv[q].propertyId)) = 1

\* A re-submission whose first submission changed the stored identity.
C11_Witness ==
  \E p \in Procs, q \in Procs :
    Resubmission(p, q) /\ inv[p].identityChanged /\ inv[p].logged

\* own_funds_pct and mortgage_pct are each absent or in 0..100, and their sum is
\* at most 100 when both are present.
PercentsOk(own, mort) ==
  /\ own.t = "null" \/ (own.t = "num" /\ own.n >= 0 /\ own.n <= 100)
  /\ mort.t = "null" \/ (mort.t = "num" /\ mort.n >= 0 /\ mort.n <= 100)
  /\ (own.t = "num" /\ mort.t = "num") => own.n + mort.n <= 100

\* C12: percent invariant.  Every sales_inquiries row has percents that are
\* absent or in 0..100 with a sum of at most 100; a submission whose percents
\* violate this writes nothing and is rejected, with BadRequest when its token
\* resolved; a submission that passed the checks has percents that satisfy it.
C12_PercentInvariant ==
  /\ \A i \in DOMAIN sales_inquiries :
       PercentsOk(sales_inquiries[i].own_funds_pct, sales_inquiries[i].mortgage_pct)
  /\ \A p \in Procs :
       (/\ inv[p].kind = "finance"
        /\ ~PercentsOk(numberOrNull(inv[p].body.own_funds_pct),
                       numberOrNull(inv[p].body.mortgage_pct))) =>
         /\ inv[p].pc = "done" /\ inv[p].statusCode # 200 /\ ~inv[p].wrote
         /\ inv[p].applicantId # NULL => Outcome(inv[p]) = "BadRequest"

\* 60 and 40 was accepted and written; 70 and 40 was rejected afterwards.
C12_Witness ==
  /\ \E i \in DOMAIN sales_inquiries :
       /\ sales_inquiries[i].own_funds_pct = JNum(60)
       /\ sales_inquiries[i].mortgage_pct = JNum(40)
  /\ \E p \in Procs :
       /\ inv[p].kind = "finance" /\ inv[p].pc = "done"
       /\ inv[p].body.own_funds_pct = JNum(70) /\ inv[p].body.mortgage_pct = JNum(40)
       /\ inv[p].statusCode = 400

\* The applicant_id values a payload may carry.
PayloadIds == {NULL, "A1", "A2", "A9"}

\* The invocation r, had its payload carried applicant_id x.
Twin(r, x) == [r EXCEPT !.body.applicant_id = x]

\* The applicant the token of body b names, null when the token does not resolve.
TokenApplicant(b) ==
  IF norm(b.finance_token) # ""
  THEN IF JwtVerifies(norm(b.finance_token))
       THEN finance_tokens[norm(b.finance_token)].applicant_id ELSE NULL
  ELSE LookupToken(norm(b.booking_token)).applicant_id

\* Every step of a finance submission does the same whatever the payload's
\* applicant_id: the checks and the response, the applicant fetched, the rows
\* written.
C13_PayloadIdIgnored ==
  \A p \in Procs, x \in PayloadIds :
    inv[p].kind = "finance" =>
      LET r == inv[p]
          t == Twin(r, x)
          r0 == [Idle EXCEPT !.kind = "finance", !.body = r.body,
                             !.property_code = r.body.property_code]
      IN /\ \A rlIp \in BOOLEAN :
              FinGuards(Twin(r0, x), t.body, rlIp) = Twin(FinGuards(r0, r.body, rlIp), x)
         /\ r.pc = "applicant" => FinFetched(t) = Twin(FinFetched(r), x)
         /\ r.pc = "identityChange" => IdentityChangeRow(t) = IdentityChangeRow(r)
         /\ r.pc = "updateApplicant" => ApplicantUpdate(t) = ApplicantUpdate(r)
         /\ r.pc = "writeInquiry" => FinInquiryRow(t) = FinInquiryRow(r)
         /\ r.applicantId \in {NULL, TokenApplicant(r.body)}

\* The only applicants row a submission overwrites is that of its token.
C13_OverwritesTokenApplicant ==
  \A a \in Applicants :
    applicants'[a] # applicants[a] =>
      \E p \in Procs : /\ inv[p].kind = "finance" /\ inv[p].pc = "updateApplicant"
                       /\ inv'[p].pc # inv[p].pc
                       /\ TokenApplicant(inv[p].body) = a

Overwrites(p) ==
  inv[p].kind = "finance" /\ inv[p].pc = "updateApplicant" /\ inv'[p].pc = "inquiry"

\* The rows of applicant_identity_changes.
IdentityChangeRows == {applicant_identity_changes[i] : i \in DOMAIN applicant_identity_changes}

\* C14: identity-change ordering.  When a submission overwrites the applicant row
\* and a stored full_name, email or phone it read differs, trimmed, from the
\* submitted one, the identity-change row with the old and new values, the
\* applicant_id, the property_id and the changed_by tag is already written; when
\* none differs the submission has written no such row.
C14_LoggedBeforeOverwrite ==
  [][\A p \in Procs :
       Overwrites(p) =>
         IF IdentityChanged(inv[p].existingApplicant, norm(inv[p].body.full_name), inv[p].body)
         THEN IdentityChangeRow(inv[p]) \in IdentityChangeRows
         ELSE ~inv[p].logged]_vars

\* The finance token of an invocation, "" when it carries none.
FinanceTokenOf(r) ==
  IF r.kind = "finance" THEN norm(r.body.finance_token)
  ELSE IF r.kind = "context" THEN norm(r.query.token)
  ELSE ""

\* The gate of a finance token j presented with property_code code: it verifies,
\* its purpose is finance_form_v1, its three fields are present and its
\* property_code is the supplied one, both trimmed.
GateOpen(j, code) ==
  /\ j \in DOMAIN finance_tokens
  /\ finance_tokens[j].purpose = "finance_form_v1"
  /\ finance_tokens[j].applicant_id # NULL
  /\ finance_tokens[j].property_id # NULL
  /\ finance_tokens[j].property_code # NULL
  /\ Trim(finance_tokens[j].property_code) = norm(code)

\* The invocation has got to an applicants or properties access, or past it.
Accessed(r) ==
  \/ r.applicantId # NULL \/ r.propertyId # NULL
  \/ r.readStatus # NULL \/ r.applicant # {} \/ r.wrote
  \/ r.pc \notin {"idle", "done"}
  \/ r.statusCode \in {200, 404, 409}

BoundProperty(r) ==
  IF r.kind = "context" /\ norm(r.query.token) # ""
  THEN IF GateOpen(norm(r.query.token), Trim(finance_tokens[norm(r.query.token)].property_code))
            /\ finance_tokens[norm(r.query.token)].applicant_id \in Applicants
       THEN finance_tokens[norm(r.query.token)].property_id ELSE NULL
  ELSE IF r.kind = "context" THEN LookupToken(norm(r.query.booking_token)).property_id
  ELSE LookupToken(norm(r.query.token)).property_id

\* A returned read request with a valid token and a property_code other than the
\* code of the token's property, that no check on the query's shape and no rate
\* limit rejected.
ReadMismatch(r) ==
  /\ r.kind \in {"resolve", "page", "context"} /\ r.pc = "done"
  /\ BoundProperty(r) \in Properties
  /\ norm(r.query.property_code) # Trim(property_code[BoundProperty(r)])
  /\ r.statusCode \notin {400, 405, 429}

\* C16: on every read endpoint a valid token with a property_code other than the
\* token's yields Unauthorized, whatever the listing's business type and status.
C16_ReadMismatchUnauthorized ==
  \A p \in Procs : ReadMismatch(inv[p]) => Outcome(inv[p]) = "Unauthorized"

\* The eligibility decision of the booking endpoint: a sales listing (sell,
\* prodej or sale, whatever the case) whose status is "available".
isEligible(bt, st) == IsSalesBook(bt) /\ IsAvailable(st)

\* A finance submission that got to the eligibility decision: its token resolved
\* and its percents passed.
Decided(r) ==
  /\ r.kind = "finance"
  /\ r.applicantId # NULL /\ r.propertyId \in Properties
  /\ PercentError(numberOrNull(r.body.own_funds_pct), numberOrNull(r.body.mortgage_pct)) = NULL

\* The submission went on to the applicant fetch.
Proceeded(r) == r.pc # "done" \/ r.statusCode \in {200, 404}

\* C17: the finance submission's eligibility decision is isEligible.  It rejects
\* with "Property is not a sales listing", a Conflict, exactly the listings whose
\* business_type is none of sell, prodej, sale, and of the others it proceeds
\* with exactly those whose status it read as "available".
C17_FinanceEligibility ==
  \A p \in Procs :
    LET r == inv[p]
        bt == business_type[r.propertyId]
    IN Decided(r) =>
         /\ (r.error = "Property is not a sales listing") <=> ~IsSalesBook(bt)
         /\ ~IsSalesBook(bt) => (~Proceeded(r) /\ Outcome(r) = "Conflict")
         /\ IsSalesBook(bt) => (r.readStatus # NULL /\ (Proceeded(r) <=> isEligible(bt, r.readStatus)))

\* C18: resolve finance context applies the eligibility guard.  For a listing
\* whose status it read as other than "available" it returns Conflict and no
\* identity fields of the applicant.
C18_ContextEligibility ==
  \A p \in Procs :
    LET r == inv[p]
    IN (/\ r.kind = "context" /\ r.pc = "done"
        /\ r.readStatus \notin {NULL, "available"}
        /\ r.statusCode # 401) =>
         (Outcome(r) = "Conflict" /\ r.applicant = {})

\* The calls for key k allowed at a time t with lo < t <= hi, and with lo <= t <= hi.
AllowedIn(k, lo, hi) == {i \in DOMAIN allowedAt[k] : lo < allowedAt[k][i] /\ allowedAt[k][i] <= hi}
AllowedWithin(k, lo, hi) == {i \in DOMAIN allowedAt[k] : lo <= allowedAt[k][i] /\ allowedAt[k][i] <= hi}

\* The timestamps of key k's bucket that survive in the window at the time now.
Surviving(k) == {i \in DOMAIN store[k] : store[k][i] > now - Rules[k].windowMs}

\* A call for key k at the time now is allowed iff fewer than max of the key's
\* timestamps survive in the window, and an allowed call is recorded.
C19_AllowedIffBelowMax ==
  \A k \in Keys :
    (last'.key = k /\ now' = now) =>
      /\ last'.allowed <=> Cardinality(Surviving(k)) < Rules[k].max
      /\ last'.allowed <=> allowedAt'[k] = Append(allowedAt[k], now)
      /\ last'.allowed <=> Len(store'[k]) = Cardinality(Surviving(k)) + 1

\* C19: the allowed calls of a key whose timestamps fall within any interval of
\* length windowMs, from a to a + windowMs, never exceed max.
C19_BoundClosedInterval ==
  \A k \in Keys, a \in 0..MaxClock :
    Cardinality(AllowedWithin(k, a, a + Rules[k].windowMs)) <= Rules[k].max

\* What the filter t > now - windowMs does give: a call is allowed iff fewer
\* than max recorded timestamps survive in the window, and the allowed calls of
\* a key at times a < t <= a + windowMs never exceed max.
C19_RateLimiterBound ==
  [][/\ C19_AllowedIffBelowMax
     /\ \A k \in Keys : \A a \in (0 - Rules[k].windowMs)..MaxClock :
          Cardinality(AllowedIn(k, a, a + Rules[k].windowMs))' <= Rules[k].max]_vars

\* A key was allowed again after its window had filled.
C19_Witness ==
  \E k \in Keys :
    /\ Len(allowedAt[k]) > Rules[k].max
    /\ Cardinality(AllowedIn(k, now - Rules[k].windowMs, now)) = Rules[k].max
    /\ last.key = k /\ ~last.allowed

\* The first time from now on at which a call for key k would be allowed.
AllowedAgainAt(k) ==
  CHOOSE t \in now..(now + Rules[k].windowMs) :
    /\ Cardinality({i \in DOMAIN store[k] : store[k][i] > t - Rules[k].windowMs}) < Rules[k].max
    /\ \A u \in now..(t - 1) :
         Cardinality({i \in DOMAIN store[k] : store[k][i] > u - Rules[k].windowMs}) >= Rules[k].max

\* C20: a rejected call records nothing.  After it the key's bucket holds exactly
\* the timestamps that survived, the result is allowed = false with remaining =
\* 0, the buckets of the other keys are unchanged, and the time at which the key
\* is allowed again is what it was before the call, resetMs from now.
C20_RejectionRecordsNothing ==
  [][\A k \in Keys :
       (last'.key = k /\ now' = now /\ ~last'.allowed) =>
         /\ last'.remaining = 0
         /\ store'[k] = SelectSeq(store[k], LAMBDA t : t > now - Rules[k].windowMs)
         /\ \A j \in Keys \ {k} : store'[j] = store[j]
         /\ allowedAt' = allowedAt
         /\ AllowedAgainAt(k)' = AllowedAgainAt(k)
         /\ now + last'.resetMs = AllowedAgainAt(k)]_vars

\* A call was rejected with time left in the window and stale timestamps pruned.
C20_Witness ==
  /\ last.key \in Keys /\ ~last.allowed /\ last.resetMs > 0
  /\ Len(allowedAt[last.key]) > Len(store[last.key])

\* The calls of a log by what they are part of.
LimiterCalls == {"rateLimit:ip", "rateLimit:tok"}
TokenCalls == {"jwt.verify", "viewing_tokens"}
StorageCalls == {"viewing_tokens", "properties", "viewings", "applicants", "sales_inquiries",
                 "applicant_identity_changes", "writeAuditEvent"}
EngineCalls == {"validate", "percent", "viewings", "applicants", "sales_inquiries",
                "applicant_identity_changes"}

\* The places of a log at which one of the calls is made.
Places(log, calls) == {i \in DOMAIN log : log[i] \in calls}

\* Every one of the first calls is made before every one of the second.
Precede(log, first, second) ==
  \A i \in Places(log, first), j \in Places(log, second) : i < j

\* The limiter is consulted before the token is resolved and before any table is
\* touched, and a request answered 429 touches no table.
C21_LimiterFirst ==
  \A p \in Procs :
    LET log == inv[p].log
    IN /\ Precede(log, LimiterCalls, TokenCalls \cup StorageCalls)
       /\ Places(log, TokenCalls \cup StorageCalls) # {} => Places(log, LimiterCalls) # {}
       /\ inv[p].statusCode = 429 => Places(log, StorageCalls) = {} /\ ~inv[p].wrote

\* C21: request ordering.  On every endpoint the limiter is consulted before the
\* token is resolved, the token is resolved and the listing read before any step
\* of the operation (payload checks, slot, applicant and inquiry accesses), and
\* a request answered 429 reads and writes no table.
C21_RequestOrdering ==
  /\ C21_LimiterFirst
  /\ \A p \in Procs :
       LET log == inv[p].log
       IN Places(log, EngineCalls) # {} =>
            /\ \E t \in Places(log, TokenCalls) : \A e \in Places(log, EngineCalls) : t < e
            /\ \E g \in Places(log, {"properties"}) : \A e \in Places(log, EngineCalls) : g < e

\* A rate-limited booking and a rate-limited submission.
C21_Witness ==
  /\ inv["p1"].statusCode = 429 /\ inv["p1"].log = <<"rateLimit:ip", "rateLimit:tok">>
  /\ nreq = 2

\* C22: every book-slot and finance request that goes on to resolve its token
\* has been checked against the limiter key of the client IP and the key of the
\* token.
C22_TwoLimiterKeys ==
  \A p \in Procs :
    (inv[p].kind \in {"book", "finance"} /\ Places(inv[p].log, TokenCalls) # {}) =>
      /\ Places(inv[p].log, {"rateLimit:ip"}) # {}
      /\ Places(inv[p].log, {"rateLimit:tok"}) # {}

\* The same of book-slot requests alone.
C22_TwoLimiterKeysBooking ==
  \A p \in Procs :
    (inv[p].kind = "book" /\ Places(inv[p].log, TokenCalls) # {}) =>
      /\ Places(inv[p].log, {"rateLimit:ip"}) # {}
      /\ Places(inv[p].log, {"rateLimit:tok"}) # {}

\* The number of audit events a request has emitted.
EmissionsOf(r) == Cardinality(Places(r.log, {"writeAuditEvent"}))
Emissions(p) == EmissionsOf(inv[p])

\* C23: every book-slot request that has been answered (success, 4xx, 409, 429
\* or 500) has emitted exactly one audit event.
C23_BookingAuditOnce ==
  \A p \in Procs : (inv[p].kind = "book" /\ inv[p].pc = "done") => Emissions(p) = 1

\* What the handler does: a book-slot request emits no audit event at all.
C23_BookingNeverAudits ==
  \A p \in Procs : inv[p].kind = "book" => Emissions(p) = 0 /\ inv[p].emitted = {}

\* A booking that succeeded after an earlier request, with nothing audited.
C23_Witness ==
  /\ inv["p1"].kind = "book" /\ inv["p1"].pc = "done" /\ inv["p1"].statusCode = 200
  /\ nreq = 2 /\ audit_events = <<>>

\* C24: every finance submission that has been answered, successfully or with
\* any failure, has emitted exactly one audit event.
C24_FinanceAuditOnce ==
  \A p \in Procs : (inv[p].kind = "finance" /\ inv[p].pc = "done") => Emissions(p) = 1

\* What the handler does: one event for a submission answered 200, none for
\* one answered otherwise.
C24_FinanceAuditOnSuccessOnly ==
  \A p \in Procs :
    (inv[p].kind = "finance" /\ inv[p].pc = "done") =>
      Emissions(p) = (IF inv[p].statusCode = 200 THEN 1 ELSE 0)

\* A submission that failed after one that succeeded with its event stored.
C24_Witness ==
  /\ inv["p1"].kind = "finance" /\ inv["p1"].pc = "done" /\ inv["p1"].statusCode = 401
  /\ Emissions("p1") = 0 /\ Len(audit_events) = 1
  /\ audit_events[1].event_type = "finance_submitted"

\* An invocation without the record of what became of its audit write.
Primary(r) == [r EXCEPT !.audit = NULL]

\* The steps in which p's handler calls writeAuditEvent: the end of a finance
\* submission, and the two steps of the context endpoint that respond.
EmitsFinance(p) ==
  /\ inv[p].kind = "finance" /\ inv[p].pc = "writeInquiry" /\ inv'[p].pc = "done"
EmitsCtxRespond(p) ==
  /\ inv[p].kind = "context" /\ inv[p].pc = "ctxProperty" /\ inv'[p].pc = "done"
  /\ EmissionsOf(inv'[p]) = 1
EmitsCtxBegin(p) ==
  /\ inv[p].pc \in {"idle", "done"} /\ nreq' = nreq + 1
  /\ inv'[p].kind = "context" /\ EmissionsOf(inv'[p]) = 1

\* The invocation p's step leaves when the audit write has the outcome o.
AfterAudit(p, o) ==
  IF EmitsFinance(p) THEN FinResponded(inv[p], inv'[p].salesInquiryId, o)
  ELSE IF EmitsCtxRespond(p) THEN CtxRespond(inv[p], o)
  ELSE CtxGuards([Idle EXCEPT !.kind = "context", !.query = inv'[p].query,
                              !.property_code = inv'[p].query.property_code],
                 inv'[p].query, TRUE, o)

\* C25: the audit sink never affects the primary flow.  In every step in which a
\* handler calls writeAuditEvent, whatever becomes of the write (stored, an
\* insert error, a throw): the call does not raise and attempts one insert, the
\* invocation and its response are the ones any other outcome of the write would
\* leave, the tables other than audit_events hold what the handler alone wrote,
\* and audit_events gains at most the one row.
C25_AuditNeverAffectsFlow ==
  [][\A p \in Procs :
       (EmitsFinance(p) \/ EmitsCtxRespond(p) \/ EmitsCtxBegin(p)) =>
         /\ \A o \in AuditOutcomes :
              /\ Primary(AfterAudit(p, o)) = Primary(inv'[p])
              /\ \A d \in inv'[p].emitted :
                   /\ ~writeAuditEvent(audit_events, d, o).raised
                   /\ writeAuditEvent(audit_events, d, o).attempts = 1
         /\ inv'[p].audit \in AuditOutcomes
         /\ inv'[p].statusCode = 500 => inv'[p].audit = NULL
         /\ audit_events' = IF inv'[p].audit = "stored"
                            THEN audit_events \o <<AuditPayload(CHOOSE d \in inv'[p].emitted : TRUE)>>
                            ELSE audit_events
         /\ UNCHANGED <<properties, viewings, applicants, applicant_identity_changes>>
         /\ IF EmitsFinance(p)
            THEN LET id == inv'[p].salesInquiryId
                 IN /\ DOMAIN sales_inquiries' = DOMAIN sales_inquiries \cup {id}
                    /\ \A i \in DOMAIN sales_inquiries \ {id} :
                         sales_inquiries'[i] = sales_inquiries[i]
                    /\ [sales_inquiries'[id] EXCEPT !.viewing_time = NULL, !.source = NULL]
                         = FinInquiryRow(inv[p])
            ELSE UNCHANGED sales_inquiries]_vars

\* A submission answered 200 with its inquiry row written although the audit
\* write threw and stored nothing.
C25_Witness ==
  /\ inv["p1"].kind = "finance" /\ inv["p1"].statusCode = 200 /\ inv["p1"].wrote
  /\ inv["p1"].audit = "throws" /\ Emissions("p1") = 1
  /\ audit_events = <<>> /\ Len(sales_inquiries) > 0

\* A context request answered 401 although the audit insert returned an error.
C25_WitnessInsertError ==
  /\ inv["p1"].kind = "context" /\ inv["p1"].statusCode = 401
  /\ inv["p1"].audit = "error" /\ Emissions("p1") = 1 /\ audit_events = <<>>

\* Every bearer token and finance JWT a request of the model carries.
RawTokens ==
  {"T1", "T2", "T3", "T4", "bogus", LongToken,
   "J1", LongJwt, "Jexpired", "Jpurpose", "Jincomplete", "Jmissing"}

\* The token a request carries, and the request with its token blanked.
RequestToken(r) ==
  IF r.kind = "context"
  THEN IF norm(r.query.token) # "" THEN norm(r.query.token) ELSE norm(r.query.booking_token)
  ELSE FinTokenToHash(r.body)
RequestBesidesToken(r) ==
  IF r.kind = "context"
  THEN [r.query EXCEPT !.token = IF @ = NULL THEN NULL ELSE "",
                       !.booking_token = IF @ = NULL THEN NULL ELSE ""]
  ELSE [r.body EXCEPT !.finance_token = IF @ = NULL THEN NULL ELSE "",
                      !.booking_token = IF @ = NULL THEN NULL ELSE ""]

\* Two answered requests to one endpoint whose audit events were stored and
\* which differ in the value of the token and in nothing else.
DifferOnlyInToken(p, q) ==
  /\ p # q
  /\ inv[p].kind \in {"context", "finance"} /\ inv[q].kind = inv[p].kind
  /\ inv[p].pc = "done" /\ inv[q].pc = "done"
  /\ inv[p].audit = "stored" /\ inv[q].audit = "stored"
  /\ RequestBesidesToken(inv[p]) = RequestBesidesToken(inv[q])
  /\ RequestToken(inv[p]) # RequestToken(inv[q])

\* The stored event of a request, and the event without its token_hash_prefix.
StoredEvent(p) == AuditPayload(CHOOSE d \in inv[p].emitted : TRUE)
BesidesHashPrefix(e) == [e EXCEPT !.token_hash_prefix = NULL]

\* No stored event holds a raw token: token_hash_prefix is null or the first 20
\* hex characters of a digest, and no other field is a token of a request.
NoRawTokenStored ==
  \A i \in DOMAIN audit_events :
    LET e == audit_events[i]
    IN /\ e.token_hash_prefix # NULL =>
            /\ Len(e.token_hash_prefix) = 20
            /\ \E t \in RawTokens : e.token_hash_prefix = SubSeq(Sha256Hex(t), 1, 20)
       /\ {e.event_type, e.applicant_id, e.property_id, e.viewing_token_id,
           e.token_hash_prefix, e.meta.reason, e.meta.property_code} \cap RawTokens = {}

\* The event a request stores has the hash prefix of the request's trimmed
\* token, and null when the request has none.
HashPrefixOfRequestToken ==
  \A p \in Procs :
    (inv[p].emitted # {} /\ inv[p].kind \in {"context", "finance"}) =>
      StoredEvent(p).token_hash_prefix =
        IF RequestToken(inv[p]) \in {NULL, ""} THEN NULL
        ELSE SubSeq(Sha256Hex(RequestToken(inv[p])), 1, 20)

\* C26 as stated: no stored audit event holds a raw token, token_hash_prefix is
\* the 20-character hash prefix of the trimmed token or null, and the stored
\* events of two requests that differ only in the token differ only in
\* token_hash_prefix.
C26_TokenOnlyInHashPrefix ==
  /\ NoRawTokenStored
  /\ HashPrefixOfRequestToken
  /\ \A p, q \in Procs :
       DifferOnlyInToken(p, q) =>
         BesidesHashPrefix(StoredEvent(p)) = BesidesHashPrefix(StoredEvent(q))

\* C26, amended: no stored audit event holds a raw token and token_hash_prefix
\* is the 20-character hash prefix of the trimmed token or null; the stored events
\* of two requests that differ only in the token agree on event_type,
\* viewing_token_id and meta.property_code, and differ only in token_hash_prefix
\* when the two tokens resolve to the same applicant and property and the two
\* requests have the same response and wrote the same inquiry row.
C26_OnlyHashPrefixStored ==
  /\ NoRawTokenStored
  /\ HashPrefixOfRequestToken
  /\ \A p, q \in Procs :
       DifferOnlyInToken(p, q) =>
         LET e == StoredEvent(p)
             f == StoredEvent(q)
         IN /\ e.event_type = f.event_type
            /\ e.viewing_token_id = f.viewing_token_id
            /\ e.meta.property_code = f.meta.property_code
            /\ (/\ inv[p].applicantId = inv[q].applicantId
                /\ inv[p].propertyId = inv[q].propertyId
                /\ inv[p].statusCode = inv[q].statusCode
                /\ inv[p].error = inv[q].error
                /\ inv[p].salesInquiryId = inv[q].salesInquiryId) =>
                 BesidesHashPrefix(e) = BesidesHashPrefix(f)

\* Two context requests that differ only in the finance token, both tokens of
\* applicant A1 and property P1: two stored events with different hash prefixes.
C26_Witness ==
  /\ DifferOnlyInToken("p1", "p2")
  /\ inv["p1"].kind = "context" /\ inv["p1"].statusCode = 200 /\ inv["p2"].statusCode = 200
  /\ Len(audit_events) = 2
  /\ audit_events[1].token_hash_prefix # audit_events[2].token_hash_prefix
  /\ BesidesHashPrefix(audit_events[1]) = BesidesHashPrefix(audit_events[2])

\* Two submissions that differ only in the booking token, with events of
\* different applicants.
C26_WitnessOtherApplicant ==
  /\ DifferOnlyInToken("p1", "p2")
  /\ inv["p1"].kind = "finance"
  /\ StoredEvent("p1").applicant_id # StoredEvent("p2").applicant_id

\* A booking past its conditional acquire: at the inquiry steps or the side effects.
PastAcquire(r) == r.kind = "book" /\ r.pc \in {"inquiry", "writeInquiry", "notify"}

\* The response of a booking, without the record of what became of its side
\* effects.
BesidesSideEffects(r) == [r EXCEPT !.link = NULL, !.mail = NULL, !.log = <<>>]

\* C27: best-effort side effects.  A booking whose conditional acquire has
\* succeeded goes on to the response 200 {ok: true}: every outcome of the
\* finance-link request (not configured, a url, a failure status, a throw) and
\* of the mail (sent, no credentials, a throw) leaves the same response, and the
\* step of the side effects changes no slot and no inquiry row.
C27_BestEffortSideEffects ==
  [][\A p \in Procs :
       (PastAcquire(inv[p]) /\ inv'[p].pc # inv[p].pc) =>
         /\ inv'[p].pc = "done" => inv'[p].statusCode = 200 /\ inv'[p].error = "ok"
         /\ inv[p].pc = "notify" =>
              /\ inv'[p].pc = "done"
              /\ \A lo \in LinkOutcomes, mo \in MailOutcomes :
                   /\ BookNotified(inv[p], lo, mo).statusCode = 200
                   /\ BesidesSideEffects(BookNotified(inv[p], lo, mo))
                        = BesidesSideEffects(inv'[p])
              /\ UNCHANGED <<viewings, sales_inquiries>>]_vars

\* A booking answered 200 with its slot booked although the finance-link
\* request failed and the mail threw.
C27_Witness ==
  /\ inv["p1"].kind = "book" /\ inv["p1"].pc = "done" /\ inv["p1"].statusCode = 200
  /\ inv["p1"].link = "failed" /\ inv["p1"].mail = "throws"
  /\ viewings[inv["p1"].slotId] = [status |-> "booked", applicant_id |-> inv["p1"].applicantId]
  /\ \E i \in DOMAIN sales_inquiries :
       sales_inquiries[i].applicant_id = inv["p1"].applicantId

\* The same with the finance-link request throwing.
C27_WitnessLinkThrows ==
  /\ inv["p1"].kind = "book" /\ inv["p1"].statusCode = 200
  /\ inv["p1"].link = "throws" /\ inv["p1"].mail = "sent"

\* A request that has been answered, and one answered without success.
Answered(r) == r.kind # "none" /\ r.pc = "done"
Refused(r) == Answered(r) /\ r.statusCode # 200

\* C28: every answered request has one response, with a status code, and every
\* response other than success has the envelope {ok: false, error: <string>}.
C28_ErrorEnvelope ==
  \A p \in Procs :
    /\ Answered(inv[p]) => inv[p].statusCode \in {200, 400, 401, 404, 405, 409, 413, 429, 500}
    /\ Refused(inv[p]) => inv[p].envelope = "json" /\ inv[p].error \notin {NULL, "ok"}

\* What the handlers do: the envelope on every refusal but bookSlot's 405, whose
\* body is the plain text "Method Not Allowed".
C28_ErrorEnvelopeButBooking405 ==
  \A p \in Procs :
    Refused(inv[p]) =>
      IF inv[p].kind = "book" /\ inv[p].statusCode = 405
      THEN inv[p].envelope = "text" /\ inv[p].error = "Method Not Allowed"
      ELSE inv[p].envelope = "json" /\ inv[p].error \notin {NULL, "ok"}

\* A GET to bookSlot, answered 405 with a plain-text body before any check.
C28_Witness ==
  /\ inv["p1"].kind = "book" /\ inv["p1"].pc = "done" /\ inv["p1"].statusCode = 405
  /\ inv["p1"].envelope = "text" /\ inv["p1"].log = <<>>

\* The token of a request, whichever field and kind it has, and the strings of
\* the request that have a cap, each with its cap.
TokensOf(r) ==
  IF r.kind = "book" THEN {r.body.token}
  ELSE IF r.kind = "finance" THEN {r.body.finance_token, r.body.booking_token}
  ELSE IF r.kind = "context" THEN {r.query.token, r.query.booking_token}
  ELSE IF r.kind \in {"resolve", "page"} THEN {r.query.token}
  ELSE {}
FinanceTokensOf(r) ==
  IF r.kind = "finance" THEN {r.body.finance_token}
  ELSE IF r.kind = "context" THEN {r.query.token}
  ELSE {}
Over(strings, cap) == \E v \in strings : v # NULL /\ StrLen(v) > cap
OverCap(r, tokens) ==
  \/ Over(tokens, MaxTokenLen)
  \/ r.kind = "finance" /\ \/ Over({r.body.property_code}, MaxPropertyCodeLen)
                           \/ Over({r.body.full_name}, MaxFullNameLen)
                           \/ Over({r.body.email}, MaxEmailLen)
                           \/ Over({r.body.phone}, MaxPhoneLen)
  \/ r.kind \in {"context", "resolve", "page"} /\ Over({r.query.property_code}, MaxPropertyCodeLen)

\* A request over a cap has touched no table, and once answered it has been
\* refused: with 400, unless the method, the body's size or the limiter refused it
\* first.
RejectedBeforeStorage(r) ==
  /\ Places(r.log, StorageCalls) = {}
  /\ ~r.wrote
  /\ Answered(r) => r.statusCode \in {400, 405, 413, 429}

\* C29: length caps precede storage.  On every endpoint and for both kinds of
\* token, a request whose token is over 256 characters, property code over 64,
\* name over 200, email over 254 or phone over 40 is rejected before any table is
\* read or written.
C29_CapsPrecedeStorage ==
  \A p \in Procs :
    (inv[p].kind # "none" /\ OverCap(inv[p], TokensOf(inv[p]))) => RejectedBeforeStorage(inv[p])

\* What the handlers do: the same of every capped string but the finance token,
\* which has no cap.
C29_CapsButFinanceToken ==
  \A p \in Procs :
    (inv[p].kind # "none" /\ OverCap(inv[p], TokensOf(inv[p]) \ FinanceTokensOf(inv[p])))
      => RejectedBeforeStorage(inv[p])

\* A submission with a finance token of 300 characters, answered 200 with its
\* inquiry row written.
C29_Witness ==
  /\ inv["p1"].kind = "finance" /\ inv["p1"].body.finance_token = LongJwt
  /\ inv["p1"].statusCode = 200 /\ inv["p1"].wrote /\ Len(sales_inquiries) > 0

\* A submission with a phone of 41 characters, answered 400 with nothing read.
C29_WitnessRejected ==
  /\ inv["p1"].kind = "finance" /\ inv["p1"].body.phone = LongPhone
  /\ inv["p1"].statusCode = 400 /\ inv["p1"].log = <<"rateLimit:ip", "validate">>

\* The property of the token a page request presents.
PageProperty(r) == viewing_tokens[norm(r.query.token)].property_id

\* C30: the slots getBookingPageData returns.  In the step that reads the slots
\* and responds, every slot returned belongs to the property of the request's
\* token, has status available in the table as read, and starts no earlier than
\* the handler's clock reading; a slot that is booked or cancelled, or of another
\* property, is never among them, and no other response carries slots.
C30_OnlyAvailableFutureSlots ==
  [][\A p \in Procs :
       /\ (inv[p].kind = "page" /\ inv[p].pc = "pageSlots" /\ inv'[p].pc = "done") =>
            /\ inv'[p].statusCode = 200
            /\ \A s \in inv'[p].slots :
                 /\ slot_property[s] = PageProperty(inv[p])
                 /\ viewings[s].status = "available"
                 /\ viewings[s].status \notin {"booked", "cancelled"}
                 /\ SlotMs(s) >= inv[p].nowMs
       /\ (inv'[p].slots # {} /\ inv'[p].slots # inv[p].slots) =>
            inv[p].kind = "page" /\ inv[p].pc = "pageSlots"]_vars

\* A page answered with a slot while a slot of the same property is booked, one
\* of another property is available, and one of its own available slots has
\* already started.
C30_Witness ==
  /\ inv["p1"].kind = "page" /\ inv["p1"].statusCode = 200 /\ inv["p1"].slots # {}
  /\ \E s \in Slots \ inv["p1"].slots :
       slot_property[s] = inv["p1"].propertyId /\ viewings[s].status = "booked"
  /\ \E s \in Slots \ inv["p1"].slots :
       slot_property[s] # inv["p1"].propertyId /\ viewings[s].status = "available"

\* A page answered without the available slot that started before the clock
\* reading.
C30_WitnessPast ==
  /\ inv["p1"].kind = "page" /\ inv["p1"].statusCode = 200
  /\ \E s \in Slots \ inv["p1"].slots :
       /\ slot_property[s] = inv["p1"].propertyId /\ viewings[s].status = "available"
       /\ SlotMs(s) < inv["p1"].nowMs

\* The applicant of the token a booking request presents.
BookingTokenApplicant(r) == viewing_tokens[Trim(r.body.token)].applicant_id

\* The step in which p's acquire update books its slot.
Books(p) ==
  /\ inv[p].kind = "book" /\ inv[p].pc = "acquire" /\ inv'[p].pc = "inquiry"

\* C31: slot field consistency.  In every reachable state a slot with status
\* available has applicant_id null and a booked slot has an applicant; and the
\* step in which a request books a slot leaves it with the applicant_id of the
\* applicant of the request's token (C31_SlotFieldConsistency, of the two parts).
C31_SlotFieldsConsistent ==
  /\ \A s \in Slots :
       /\ viewings[s].status = "available" => viewings[s].applicant_id = NULL
       /\ viewings[s].status = "booked" => viewings[s].applicant_id \in Applicants
C31_BookedByTokenApplicant ==
  [][\A p \in Procs :
       Books(p) =>
         /\ viewings'[inv[p].slotId].status = "booked"
         /\ viewings'[inv[p].slotId].applicant_id = BookingTokenApplicant(inv[p])
         /\ viewings'[inv[p].slotId].applicant_id # NULL]_vars

C31_SlotFieldConsistency == []C31_SlotFieldsConsistent /\ C31_BookedByTokenApplicant

\* A slot released by a re-booking is available with no applicant while the slot
\* the request then booked has the applicant of its token.
C31_Witness ==
  /\ inv["p1"].kind = "book" /\ inv["p1"].statusCode = 200
  /\ Cardinality(Places(inv["p1"].log, {"viewings"})) = 4
  /\ viewings[inv["p1"].slotId] = [status |-> "booked", applicant_id |-> BookingTokenApplicant(inv["p1"])]
  /\ \E s \in inv["p1"].held0 : viewings[s] = [status |-> "available", applicant_id |-> NULL]

\* A step in which p's booking request begins or moves on.
BookingStep(p) ==
  /\ inv'[p].kind = "book"
  /\ inv'[p] # inv[p] /\ inv'[p] # Disturb(inv[p])

\* C32: booking leaves tokens and listings untouched.  No step of a booking
\* request changes a listing or an applicant (the token rows are never written
\* at all), and a booking is refused as "Invalid token" only when its token has
\* no row: the used flag of the row is not a gate.
C32_TokensAndListingsUntouched ==
  [][\A p \in Procs :
       BookingStep(p) =>
         /\ UNCHANGED <<properties, applicants, applicant_identity_changes>>
         /\ (inv'[p].pc = "done" /\ inv'[p].error = "Invalid token")
              => Trim(inv'[p].body.token) \notin DOMAIN viewing_tokens
         /\ (inv'[p].pc = "existing" /\ inv[p].pc # "existing")
              => Trim(inv'[p].body.token) \in DOMAIN viewing_tokens]_vars

\* A booking answered 200 for an applicant who held a slot of the property when
\* it began: the pair has one token, which an earlier booking presented too.
C32_Witness ==
  /\ inv["p1"].kind = "book" /\ inv["p1"].statusCode = 200 /\ nreq >= 2
  /\ inv["p1"].held0 # {} /\ inv["p1"].slotId \notin inv["p1"].held0
  /\ viewings[inv["p1"].slotId].status = "booked"
  /\ \A t \in DOMAIN viewing_tokens :
       (/\ viewing_tokens[t].applicant_id = inv["p1"].applicantId
        /\ viewing_tokens[t].property_id = inv["p1"].propertyId) => t = Trim(inv["p1"].body.token)

\* A booking answered 200 with a token whose used flag is set.
C32_WitnessUsed ==
  /\ inv["p1"].kind = "book" /\ inv["p1"].statusCode = 200
  /\ viewing_tokens[inv["p1"].body.token].used

\* A request that gives both a finance token and a booking token, and the
\* invocation had the request given the finance token alone.
BothTokens(r) ==
  \/ r.kind = "finance" /\ norm(r.body.finance_token) # "" /\ norm(r.body.booking_token) # ""
  \/ r.kind = "context" /\ norm(r.query.token) # "" /\ norm(r.query.booking_token) # ""
FinanceTokenAlone(r) ==
  IF r.kind = "finance" THEN [r EXCEPT !.body.booking_token = NULL]
  ELSE [r EXCEPT !.query.booking_token = NULL]

\* C33: a request with both tokens takes its context from the finance token
\* alone.  The booking token is never looked up, every check and the response are
\* those of the request without the booking token, the context is the one the
\* finance token's claims name, and a finance token that does not verify is
\* answered 401 whatever the booking token.
C33_FinanceTokenAlone ==
  \A p \in Procs :
    BothTokens(inv[p]) =>
      LET r == inv[p]
          t == FinanceTokenAlone(r)
          fin == IF r.kind = "finance" THEN norm(r.body.finance_token) ELSE norm(r.query.token)
          r0 == IF r.kind = "finance"
                THEN [Idle EXCEPT !.kind = "finance", !.body = r.body,
                                  !.property_code = r.body.property_code]
                ELSE [Idle EXCEPT !.kind = "context", !.query = r.query,
                                  !.property_code = r.query.property_code]
      IN /\ Places(r.log, {"viewing_tokens"}) = {}
         /\ r.kind = "finance" =>
              \A rlIp \in BOOLEAN :
                FinGuards(FinanceTokenAlone(r0), t.body, rlIp)
                  = FinanceTokenAlone(FinGuards(r0, r.body, rlIp))
         /\ r.kind = "context" =>
              \A rlIp \in BOOLEAN, o \in AuditOutcomes :
                [CtxGuards(FinanceTokenAlone(r0), t.query, rlIp, o) EXCEPT !.emitted = {}]
                  = [FinanceTokenAlone(CtxGuards(r0, r.query, rlIp, o)) EXCEPT !.emitted = {}]
         /\ \A d \in r.emitted : d.token_to_hash = fin
         /\ r.applicantId # NULL =>
              /\ JwtVerifies(fin)
              /\ r.applicantId = finance_tokens[fin].applicant_id
              /\ r.propertyId = finance_tokens[fin].property_id
         /\ (Answered(r) /\ Places(r.log, {"jwt.verify"}) # {} /\ ~JwtVerifies(fin))
              => r.statusCode = 401
         /\ (Answered(r) /\ r.statusCode = 200) => JwtVerifies(fin)

\* A submission with a finance token of applicant A1 and an unknown booking
\* token, answered 200 with A1's inquiry row written.
C33_Witness ==
  /\ inv["p1"].kind = "finance" /\ BothTokens(inv["p1"])
  /\ inv["p1"].body.booking_token = "bogus"
  /\ inv["p1"].statusCode = 200 /\ inv["p1"].applicantId = "A1"
  /\ \E i \in DOMAIN sales_inquiries : sales_inquiries[i].applicant_id = "A1"

\* A submission with an expired finance token and a valid booking token,
\* answered 401 with nothing read.
C33_WitnessInvalidFinance ==
  /\ inv["p1"].kind = "finance" /\ BothTokens(inv["p1"])
  /\ inv["p1"].body.booking_token = "T1" /\ ~JwtVerifies(inv["p1"].body.finance_token)
  /\ inv["p1"].statusCode = 401 /\ Places(inv["p1"].log, StorageCalls) = {}

\* A context request with a finance token of A1 and the booking token of A2,
\* answered with A1.
C33_WitnessContext ==
  /\ inv["p1"].kind = "context" /\ BothTokens(inv["p1"])
  /\ inv["p1"].query.booking_token = "T2"
  /\ inv["p1"].statusCode = 200 /\ inv["p1"].applicantId = "A1"

\* The step in which p's request writes to viewings: its release or its acquire.
WritesSlots(p) ==
  /\ inv[p].kind = "book" /\ inv[p].pc \in {"release", "acquire"}
  /\ inv'[p].pc # inv[p].pc

\* C34: release touches only the requester's own booking.  Under every
\* interleaving, a write of a booking request made for applicant A changes
\* neither the status nor the applicant_id of a slot that is booked by another
\* applicant when the write is made.
C34_OthersBookingsUntouched ==
  [][\A p \in Procs, s \in Slots :
       (/\ WritesSlots(p)
        /\ viewings[s].status = "booked"
        /\ viewings[s].applicant_id # inv[p].applicantId)
         => viewings'[s] = viewings[s]]_vars

\* What the handler does: the acquire leaves another applicant's booking alone,
\* and the release does so unless the request found the slot as its own before
\* another request's write.
C34_AcquireLeavesOthers ==
  [][\A p \in Procs, s \in Slots :
       (/\ WritesSlots(p)
        /\ viewings[s].status = "booked"
        /\ viewings[s].applicant_id # inv[p].applicantId
        /\ viewings'[s] # viewings[s])
         => inv[p].pc = "release" /\ s = inv[p].existing /\ ~inv[p].solo]_vars

\* Applicant A2's booked slot S1 made available by a release of a request of A1.
C34_Witness ==
  /\ \E p \in Procs :
       /\ inv[p].kind = "book" /\ inv[p].applicantId = "A1" /\ inv[p].pc = "acquire"
       /\ inv[p].wrote
  /\ viewings["S1"] = [status |-> "available", applicant_id |-> NULL]
  /\ \E i \in DOMAIN sales_inquiries :
       /\ sales_inquiries[i].applicant_id = "A2"
       /\ sales_inquiries[i].viewing_time = slot_start["S1"]
  /\ HeldSlots("A2", "P1") = {}

\* A booking request answered without success.
BookingRefused(r) == r.kind = "book" /\ r.pc = "done" /\ r.statusCode # 200

\* C35: a booking request answered without success has written to no slot; and
\* when it ran with no overlapping request, the applicant holds the slots held
\* when it began.
C35_RefusalChangesNoSlot ==
  \A p \in Procs :
    BookingRefused(inv[p]) =>
      /\ ~inv[p].wrote
      /\ (inv[p].solo /\ inv[p].applicantId # NULL) =>
           HeldSlots(inv[p].applicantId, inv[p].propertyId) = inv[p].held0

\* What the handler does: a refused request has written to a slot only when it
\* released the applicant's booking and then found its slot taken.
C35_RefusalAfterRelease ==
  \A p \in Procs :
    (BookingRefused(inv[p]) /\ inv[p].wrote) =>
      /\ inv[p].error = "Slot not available anymore"
      /\ inv[p].log[Len(inv[p].log)] = "viewings"
      /\ Cardinality(Places(inv[p].log, {"viewings"})) = 4

\* Applicant A1, holding S1, asks alone for S2, which A2 holds: answered 400, and
\* A1 holds no slot.
C35_Witness ==
  \E p \in Procs :
    /\ BookingRefused(inv[p]) /\ inv[p].solo /\ inv[p].applicantId = "A1"
    /\ inv[p].held0 = {"S1"} /\ inv[p].slotId = "S2"
    /\ viewings["S2"] = [status |-> "booked", applicant_id |-> "A2"]
    /\ viewings["S1"] = [status |-> "available", applicant_id |-> NULL]
    /\ HeldSlots("A1", "P1") = {}

\* No request is running.
Quiescent == \A p \in Procs : ~InFlight(inv[p])

\* The inquiry row's viewing_time is the start of a slot its applicant holds
\* booked for its property.
ViewingTimeHeld(row) ==
  \E s \in HeldSlots(row.applicant_id, row.property_id) : slot_start[s] = row.viewing_time

\* C36: denormalized viewing_time stays consistent.  After any sequence of
\* booking requests run one at a time, answered with success or not, with no
\* change to a slot from outside, every inquiry row with a viewing_time belongs to
\* an applicant who holds a booked slot of the property that starts at that time.
C36_ViewingTimeConsistent ==
  Quiescent =>
    \A i \in DOMAIN sales_inquiries :
      sales_inquiries[i].viewing_time # NULL => ViewingTimeHeld(sales_inquiries[i])

\* What the handler does: the row of the applicant of a booking answered 200 is
\* consistent, and so is every row whose applicant has not been refused after a
\* release.
C36_ConsistentAfterSuccess ==
  Quiescent =>
    \A i \in DOMAIN sales_inquiries :
      LET row == sales_inquiries[i]
      IN (row.viewing_time # NULL /\ ~ViewingTimeHeld(row)) =>
           /\ HeldSlots(row.applicant_id, row.property_id) = {}
           /\ nreq >= 1
           /\ \A p \in Procs :
                (inv[p].kind = "book" /\ inv[p].statusCode = 200)
                  => <<inv[p].applicantId, inv[p].propertyId>>
                       # <<row.applicant_id, row.property_id>>

\* A1's inquiry row shows the time of S1 after A1's request for the taken slot
\* S2 was refused, and A1 holds no slot.
C36_Witness ==
  /\ Quiescent /\ BookingRefused(inv["p1"]) /\ inv["p1"].applicantId = "A1"
  /\ inv["p1"].wrote
  /\ \E i \in DOMAIN sales_inquiries :
       /\ sales_inquiries[i].applicant_id = "A1"
       /\ sales_inquiries[i].viewing_time = slot_start["S1"]
  /\ HeldSlots("A1", "P1") = {}

\* C37: self-repair of the one-booking rule.  From any state, also one in which
\* the applicant holds two or more booked slots of the property, a successful
\* booking request that ran with no overlapping request leaves the applicant
\* with exactly one booked slot of that property.
C37_SuccessLeavesOneSlot ==
  \A p \in Procs :
    (/\ inv[p].kind = "book" /\ inv[p].pc = "done" /\ inv[p].solo
     /\ inv[p].statusCode = 200)
      => Cardinality(HeldSlots(inv[p].applicantId, inv[p].propertyId)) = 1

\* What the code does keep from the doubly booked state: a successful request
\* that ran alone leaves the requested slot booked by the applicant, and the
\* applicant holds no more slots of the property than before plus that one.
C37_SuccessBooksRequested ==
  \A p \in Procs :
    (/\ inv[p].kind = "book" /\ inv[p].pc = "done" /\ inv[p].solo
     /\ inv[p].statusCode = 200)
      => /\ inv[p].slotId \in HeldSlots(inv[p].applicantId, inv[p].propertyId)
         /\ HeldSlots(inv[p].applicantId, inv[p].propertyId)
              \subseteq inv[p].held0 \cup {inv[p].slotId}

\* A request of A1, who held S1 and S2, for the free slot S4 has succeeded.
C37_Witness ==
  /\ inv["p1"].kind = "book" /\ inv["p1"].pc = "done" /\ inv["p1"].solo
  /\ inv["p1"].statusCode = 200 /\ inv["p1"].applicantId = "A1"
  /\ inv["p1"].slotId = "S4"
  /\ Cardinality(inv["p1"].held0) = 2

\* The doubly booked state is one the concurrent race of Spec reaches.
C37_RaceReachesTwoHeld ==
  /\ Quiescent
  /\ HeldSlots("A1", "P1") = {"S1", "S2"}
  /\ Len(sales_inquiries) = 1
  /\ sales_inquiries[1] = BookInquiryRow(SecondBooking)
  /\ \A s \in Slots \ {"S1", "S2"} : viewings[s].status = "available"

\* A booking request that ran alone, by an applicant for the one slot of the
\* property the applicant held when it began.
RebooksHeld(r) ==
  /\ r.kind = "book" /\ r.solo /\ r.held0 = {r.slotId}

\* C38: re-booking the held slot is idempotent.  A booking request that ran with
\* no overlapping request, by applicant A for the slot A already holds, returns
\* success and leaves that slot booked with applicant_id = A; no step of it
\* changes any other slot.
C38_HeldSlotStaysBooked ==
  \A p \in Procs :
    (RebooksHeld(inv[p]) /\ inv[p].pc = "done") =>
      /\ inv[p].statusCode = 200
      /\ viewings[inv[p].slotId] = [status |-> "booked", applicant_id |-> inv[p].applicantId]
      /\ HeldSlots(inv[p].applicantId, inv[p].propertyId) = {inv[p].slotId}
C38_OtherSlotsUnchanged ==
  \A p \in Procs, s \in Slots :
    (RebooksHeld(inv[p]) /\ InFlight(inv[p]) /\ inv'[p] # inv[p] /\ s # inv[p].slotId)
      => viewings'[s] = viewings[s]
C38_RebookingHeldIsIdempotent ==
  []C38_HeldSlotStaysBooked /\ [][C38_OtherSlotsUnchanged]_vars

\* A2 has booked S2 and then, alone, booked S2 again: released, acquired, answered.
C38_Witness ==
  /\ RebooksHeld(inv["p1"]) /\ inv["p1"].pc = "done" /\ inv["p1"].statusCode = 200
  /\ inv["p1"].applicantId = "A2" /\ inv["p1"].slotId = "S2"
  /\ touches["S2"] >= 3
  /\ viewings["S1"] = AcquiredRow(HeldBooking)

\* The applicants table before any submission.
ApplicantsAtStart ==
  [a \in Applicants |->
     [full_name |-> "Jana Nova", email |-> "jana@example.com",
      phone |-> "+420777111222", agreed_to_gdpr |-> FALSE]]

\* C39: a finance submission that returns a non-success response leaves the
\* applicant, IdentityChange and SalesInquiry records unchanged, also when a
\* storage write fails partway through the submission.  Stated for the first
\* submission, whose records before it are those of the initial state.
C39_FailureLeavesRecords ==
  \A p \in Procs :
    (/\ inv[p].kind = "finance" /\ inv[p].pc = "done" /\ inv[p].seq = 1
     /\ inv[p].statusCode # 200)
      => /\ applicants = ApplicantsAtStart
         /\ applicant_identity_changes = <<>>
         /\ sales_inquiries = <<>>

\* What holds: a non-success answer of a submission none of whose storage writes
\* failed (every answer but 500) comes before the first write.
C39_RefusalLeavesRecords ==
  \A p \in Procs :
    (/\ inv[p].kind = "finance" /\ inv[p].pc = "done" /\ inv[p].seq = 1
     /\ inv[p].statusCode \notin {200, 500})
      => /\ applicants = ApplicantsAtStart
         /\ applicant_identity_changes = <<>>
         /\ sales_inquiries = <<>>
         /\ ~inv[p].wrote

\* The inquiry insert of the first submission failed after the applicant update
\* and the identity-change log had been written.
C39_Witness ==
  /\ inv["p1"].kind = "finance" /\ inv["p1"].pc = "done" /\ inv["p1"].seq = 1
  /\ inv["p1"].statusCode = 500 /\ inv["p1"].error = "Failed to create sales inquiry"
  /\ applicants[inv["p1"].applicantId] # ApplicantsAtStart[inv["p1"].applicantId]
  /\ Len(applicant_identity_changes) = 1

\* The step is a rateLimit call on key k that changed the limiter.
CallOn(k) ==
  /\ now' = now /\ last'.key = k
  /\ <<store, last, allowedAt, rejectedAt>>' # <<store, last, allowedAt, rejectedAt>>

\* C40: the reset hint is exact.  When a call on a key is rejected at time t with
\* reported resetMs = r, then 0 < r <= windowMs, every call on that key at a time
\* in [t, t + r) is rejected, and the first call on that key at a time >= t + r
\* is allowed.
C40_ResetWithinWindow ==
  \A k \in Keys : \A rej \in rejectedAt[k] :
    0 < rej.resetMs /\ rej.resetMs <= Rules[k].windowMs
C40_RejectedUntilReset ==
  \A k \in Keys : \A rej \in rejectedAt[k] :
    /\ (allowedAt'[k] # allowedAt[k]) => now >= rej.t + rej.resetMs
    /\ (CallOn(k) /\ now >= rej.t + rej.resetMs) =>
         /\ last'.allowed
         /\ allowedAt'[k] = Append(allowedAt[k], now)
C40_ResetHintExact == []C40_ResetWithinWindow /\ [][C40_RejectedUntilReset]_vars

\* Key "ip" was rejected at two different times before its reset time, the
\* later one millisecond before it, while key "tok" has been allowed a second
\* time once its window had passed.
C40_Witness ==
  /\ \E r1 \in rejectedAt["ip"], r2 \in rejectedAt["ip"] :
       /\ r1.t < r2.t /\ r2.t = now
       /\ r1.t + r1.resetMs = now + 1 /\ r2.resetMs = 1
  /\ Len(allowedAt["tok"]) >= 2 /\ rejectedAt["tok"] = {}
  /\ Len(store["tok"]) = 1
====
